---- MODULE Spec2Model ----
(***************************************************************************)
(* State-machine model of the BFS block allocator                          *)
(* (src/add-ons/kernel/file_systems/bfs/BlockAllocator.cpp).               *)
(*                                                                         *)
(* The on-disk block bitmap is kept as the code sees it: per allocation    *)
(* group, per bitmap block, an array of chunks (words); a chunk is the set *)
(* of its bit positions that are 1.  The volume geometry is a scaled-down  *)
(* volume: chunks of ChunkBits bits (32 in the source), ChunksPerBlock     *)
(* chunks in a bitmap block, BlocksPerGroup bitmap blocks per group, and a *)
(* last group that is shorter than the others and ends inside a block.     *)
(***************************************************************************)
EXTENDS Integers, Sequences, FiniteSets, TLC

\* ------------------------------------------------------------ geometry
\* width of one bitmap chunk (uint32 in the source, scaled down)
ChunkBits == 2
\* chunks in one bitmap block (BlockSize() / 4)
ChunksPerBlock == 2
\* fVolume->BlockSize() << 3
BitsPerBlock == ChunkBits * ChunksPerBlock
\* fBlocksPerGroup
BlocksPerGroup == 2
\* bits of a full allocation group
BitsPerGroup == BlocksPerGroup * BitsPerBlock
\* fNumGroups
NumGroups == 2
\* bits of the last allocation group
LastGroupBits == 1
\* fVolume->NumBlocks()
NumBlocks == (NumGroups - 1) * BitsPerGroup + LastGroupBits
\* fVolume->Log(): the log's block_run, in allocation group 0
LogGroup == 0
LogStart == 1
LogLength == 1
\* largest "maximum" and "minimum" a caller passes to AllocateBlocks
MaxMaximum == 3
MaxMinimum == 2
\* longest run a caller passes to Free
MaxFreeLength == 2

\* the block size in bytes is 2 ^ BlockShift
BlockShift == 1
BlockSize == 2 ^ BlockShift
\* the ranges one discard request holds (kTrimRanges, 128 in the source)
kTrimRanges == 2

GroupIds == 0 .. (NumGroups - 1)
B_OK == "B_OK"
B_BAD_VALUE == "B_BAD_VALUE"
B_DEVICE_FULL == "B_DEVICE_FULL"
B_IO_ERROR == "B_IO_ERROR"
B_UNSUPPORTED == "B_UNSUPPORTED"
B_ERROR == "B_ERROR"
B_NO_MEMORY == "B_NO_MEMORY"

Min(a, b) == IF a < b THEN a ELSE b

\* block_run of volume block numbers: Volume::ToBlock(run)
ToBlock(group, start) == group * BitsPerGroup + start

\* HOST_ENDIAN_TO_BFS_INT32 on a little-endian host: bit i of the host word
\* is bit i of the on-disk word
HOST_ENDIAN_TO_BFS_INT32(mask) == mask

VARIABLES
    bitmap,      \* on-disk block bitmap: [group][block][chunk] -> set of 1 bits
    groups,      \* fGroups: [group] -> AllocationGroup
    used_blocks, \* SuperBlock().used_blocks
    readOnly,    \* Volume::IsReadOnly()
    phase,       \* "new", "idle", "returned"
    call,        \* the operation in progress and its arguments
    ret,         \* status and run of the operation that returned last
    fLock,       \* the thread that holds BlockAllocator::fLock, or "none"
    threads,     \* [thread] -> where the thread is in its call: pc, call, ret,
                 \* and the best run its search has found
    transactionsDone,
                 \* the calls of Transaction::Done() the allocator has made
    ioErrors,    \* the calls that have failed with an I/O error of the
                 \* block cache
    fLockCount   \* how often the holder of fLock has locked it

vars == <<bitmap, groups, used_blocks, readOnly, phase, call, ret, fLock,
          threads, transactionsDone, ioErrors, fLockCount>>

\* ------------------------------------------------------------ AllocationGroup
\* AllocationGroup::AllocationGroup(); fNumBits, fNumBitmapBlocks, fStart and
\* the largest-run fields are set before they are read.
\* fLargestStart and fLargestLength are read only while fLargestValid is set
\* (lines 362, 390, 462, 766) and are overwritten when it is set again; the
\* model keeps them 0 while the flag is clear.
NewGroup ==
    [fNumBits |-> 0, fNumBitmapBlocks |-> 0, fStart |-> 0,
     fFirstFree |-> -1, fFreeBits |-> 0,
     fLargestStart |-> 0, fLargestLength |-> 0, fLargestValid |-> FALSE]

\* the group geometry set by Initialize/InitializeAndClearBitmap
GroupNumBits(i) ==
    IF i = NumGroups - 1 THEN NumBlocks - i * BitsPerGroup ELSE BitsPerGroup

GroupNumBitmapBlocks(i) ==
    IF i = NumGroups - 1
        THEN 1 + ((GroupNumBits(i) - 1) \div BitsPerBlock)
        ELSE BlocksPerGroup

\* AddFreeRange keeping the last of the longest ranges
AddFreeRangeLastLongest(grp, start, blocks) ==
    LET g1 == IF grp.fFirstFree = -1 THEN [grp EXCEPT !.fFirstFree = start]
              ELSE grp
        g2 == IF ~g1.fLargestValid \/ g1.fLargestLength <= blocks
                  THEN [g1 EXCEPT !.fLargestStart = start,
                                  !.fLargestLength = blocks,
                                  !.fLargestValid = TRUE]
                  ELSE g1
    IN  [g2 EXCEPT !.fFreeBits = @ + blocks]

\* AllocationGroup::AddFreeRange
AddFreeRange(grp, start, blocks) ==
    LET g1 == IF grp.fFirstFree = -1 THEN [grp EXCEPT !.fFirstFree = start]
              ELSE grp
        g2 == IF ~g1.fLargestValid \/ g1.fLargestLength < blocks
                  THEN [g1 EXCEPT !.fLargestStart = start,
                                  !.fLargestLength = blocks,
                                  !.fLargestValid = TRUE]
                  ELSE g1
    IN  [g2 EXCEPT !.fFreeBits = @ + blocks]

\* ------------------------------------------------------------ AllocationBlock
\* AllocationBlock::SetTo / SetToWritable: the number of bits of bitmap block
\* "block" of a group with numBits bits
NumBlockBits(numBits, block) ==
    IF (block + 1) * BitsPerBlock > numBits
        THEN numBits % BitsPerBlock
        ELSE BitsPerBlock

\* AllocationBlock::IsUsed on the chunks of one bitmap block
IsUsed(chunks, blockBits, bit) ==
    IF bit > blockBits
        THEN TRUE
        ELSE HOST_ENDIAN_TO_BFS_INT32({bit % ChunkBits})
                \subseteq chunks[bit \div ChunkBits]

\* the mask built by the inner loop of AllocationBlock::Allocate/Free
ChunkMask(start, numBlocks) ==
    {i \in (start % ChunkBits) .. (ChunkBits - 1) :
        i - (start % ChunkBits) < numBlocks}

\* AllocationBlock::Allocate: sets numBlocks bits from start, chunk by chunk
\* (block is the chunk index, start >> 5 in the source)
RECURSIVE BlockAllocateLoop(_, _, _, _)
BlockAllocateLoop(chunks, block, start, numBlocks) ==
    IF numBlocks <= 0 THEN chunks
    ELSE LET mask == ChunkMask(start, numBlocks)
         IN  BlockAllocateLoop(
                [chunks EXCEPT ![block] = @ \cup HOST_ENDIAN_TO_BFS_INT32(mask)],
                block + 1, 0, numBlocks - Cardinality(mask))

BlockAllocate(chunks, start, numBlocks) ==
    BlockAllocateLoop(chunks, start \div ChunkBits, start, numBlocks)

\* AllocationBlock::Free: clears numBlocks bits from start, chunk by chunk
RECURSIVE BlockFreeLoop(_, _, _, _)
BlockFreeLoop(chunks, block, start, numBlocks) ==
    IF numBlocks <= 0 THEN chunks
    ELSE LET mask == ChunkMask(start, numBlocks)
         IN  BlockFreeLoop(
                [chunks EXCEPT ![block] = @ \ HOST_ENDIAN_TO_BFS_INT32(mask)],
                block + 1, 0, numBlocks - Cardinality(mask))

BlockFree(chunks, start, numBlocks) ==
    BlockFreeLoop(chunks, start \div ChunkBits, start, numBlocks)

\* AllocationBlock::Allocate in a build without KDEBUG: no word is looked at
\* before it is written
RECURSIVE BlockAllocateLoopUnchecked(_, _, _, _)
BlockAllocateLoopUnchecked(chunks, block, start, numBlocks) ==
    IF numBlocks <= 0 THEN [chunks |-> chunks, panic |-> FALSE]
    ELSE LET mask == ChunkMask(start, numBlocks)
         IN  BlockAllocateLoopUnchecked(
                [chunks EXCEPT ![block] = @ \cup HOST_ENDIAN_TO_BFS_INT32(mask)],
                block + 1, 0, numBlocks - Cardinality(mask))

\* AllocationBlock::Allocate in a build with KDEBUG (lines 285-306): a word
\* that has a bit of the mask set already stops the kernel with
\* panic("blocks already set!") before it is written (lines 295-302):
\* [chunks, panic]
RECURSIVE BlockAllocateLoopKDEBUG(_, _, _, _)
BlockAllocateLoopKDEBUG(chunks, block, start, numBlocks) ==
    IF numBlocks <= 0 THEN [chunks |-> chunks, panic |-> FALSE]
    ELSE LET mask == ChunkMask(start, numBlocks)
         IN  IF HOST_ENDIAN_TO_BFS_INT32(mask) \cap chunks[block] # {}
                THEN [chunks |-> chunks, panic |-> TRUE]
                ELSE BlockAllocateLoopKDEBUG(
                        [chunks EXCEPT ![block] =
                            @ \cup HOST_ENDIAN_TO_BFS_INT32(mask)],
                        block + 1, 0, numBlocks - Cardinality(mask))

BlockAllocateKDEBUG(chunks, start, numBlocks) ==
    BlockAllocateLoopKDEBUG(chunks, start \div ChunkBits, start, numBlocks)

\* AllocationBlock::Free in a build with KDEBUG (lines 321-333): the same
\* statements as in any other build
BlockFreeKDEBUG(chunks, start, numBlocks) ==
    [chunks |-> BlockFree(chunks, start, numBlocks), panic |-> FALSE]

\* ------------------------------------------------------------ group Allocate/Free
\* GroupAllocateInfo with the free count only: fFirstFree and the largest
\* run are left as they were
GroupAllocateInfoCountOnly(grp, start, length) ==
    [grp EXCEPT !.fFreeBits = @ - length]

\* GroupAllocateInfo with the hint dropped whenever the run begins at the
\* hinted run's start or inside it
GroupAllocateInfoHintDropped(grp, start, length) ==
    LET cut == /\ grp.fLargestValid
               /\ start >= grp.fLargestStart
               /\ start < grp.fLargestStart + grp.fLargestLength
        valid == grp.fLargestValid /\ ~cut
    IN  [grp EXCEPT !.fFirstFree = IF start = @ THEN start + length ELSE @,
                    !.fFreeBits = @ - length,
                    !.fLargestStart = IF valid THEN @ ELSE 0,
                    !.fLargestLength = IF valid THEN @ ELSE 0,
                    !.fLargestValid = valid]

\* AllocationGroup::Allocate, the allocation group info (lines 383-409)
GroupAllocateInfo(grp, start, length) ==
    LET firstFree == IF start = grp.fFirstFree THEN start + length
                     ELSE grp.fFirstFree
        cutStart == grp.fLargestValid /\ grp.fLargestStart = start
        cutEnd == /\ grp.fLargestValid
                  /\ ~cutStart
                  /\ start > grp.fLargestStart
                  /\ start < grp.fLargestStart + grp.fLargestLength
        largestStart == IF cutStart THEN grp.fLargestStart + length
                        ELSE grp.fLargestStart
        largestLength == IF cutStart THEN grp.fLargestLength - length
                         ELSE IF cutEnd THEN start - grp.fLargestStart
                         ELSE grp.fLargestLength
        invalid == /\ cutStart \/ cutEnd
                   /\ \/ largestLength < largestStart
                      \/ largestLength
                            < grp.fNumBits - (largestStart + largestLength)
        valid == grp.fLargestValid /\ ~invalid
    IN  [grp EXCEPT !.fFirstFree = firstFree,
                    !.fFreeBits = @ - length,
                    !.fLargestStart = IF valid THEN largestStart ELSE 0,
                    !.fLargestLength = IF valid THEN largestLength ELSE 0,
                    !.fLargestValid = valid]

\* AllocationGroup::Allocate, the loop over the bitmap blocks (lines 413-435);
\* blocks is the group's part of the bitmap
RECURSIVE GroupAllocateLoop(_, _, _, _, _)
GroupAllocateLoop(blocks, numBits, block, start, length) ==
    IF length <= 0 THEN blocks
    ELSE LET blockBits == NumBlockBits(numBits, block)
             numBlocks == IF start + length > blockBits
                              THEN blockBits - start ELSE length
         IN  GroupAllocateLoop(
                [blocks EXCEPT ![block] = BlockAllocate(@, start, numBlocks)],
                numBits, block + 1, 0, length - numBlocks)

GroupAllocateBits(blocks, numBits, start, length) ==
    GroupAllocateLoop(blocks, numBits, start \div BitsPerBlock,
        start % BitsPerBlock, length)

\* GroupFreeInfo without "fFreeBits += length"
GroupFreeInfoStaleCount(grp, start, length) ==
    LET invalid ==
            \/ start + length = grp.fLargestStart
            \/ grp.fLargestStart + grp.fLargestLength = start
            \/ start < grp.fLargestStart /\ grp.fLargestStart > grp.fLargestLength
            \/ /\ start > grp.fLargestStart
               /\ grp.fNumBits - (grp.fLargestStart + grp.fLargestLength)
                    > grp.fLargestLength
        valid == grp.fLargestValid /\ ~invalid
    IN  [grp EXCEPT !.fFirstFree = IF @ > start THEN start ELSE @,
                    !.fLargestStart = IF valid THEN @ ELSE 0,
                    !.fLargestLength = IF valid THEN @ ELSE 0,
                    !.fLargestValid = valid]

\* GroupFreeInfo without the retreat of fFirstFree
GroupFreeInfoFirstFreeKept(grp, start, length) ==
    LET invalid ==
            \/ start + length = grp.fLargestStart
            \/ grp.fLargestStart + grp.fLargestLength = start
            \/ start < grp.fLargestStart /\ grp.fLargestStart > grp.fLargestLength
            \/ /\ start > grp.fLargestStart
               /\ grp.fNumBits - (grp.fLargestStart + grp.fLargestLength)
                    > grp.fLargestLength
        valid == grp.fLargestValid /\ ~invalid
    IN  [grp EXCEPT !.fFreeBits = @ + length,
                    !.fLargestStart = IF valid THEN @ ELSE 0,
                    !.fLargestLength = IF valid THEN @ ELSE 0,
                    !.fLargestValid = valid]

\* AllocationGroup::Free, the allocation group info (lines 452-470)
GroupFreeInfo(grp, start, length) ==
    LET invalid ==
            \/ start + length = grp.fLargestStart
            \/ grp.fLargestStart + grp.fLargestLength = start
            \/ start < grp.fLargestStart /\ grp.fLargestStart > grp.fLargestLength
            \/ /\ start > grp.fLargestStart
               /\ grp.fNumBits - (grp.fLargestStart + grp.fLargestLength)
                    > grp.fLargestLength
        valid == grp.fLargestValid /\ ~invalid
    IN  [grp EXCEPT !.fFirstFree = IF @ > start THEN start ELSE @,
                    !.fFreeBits = @ + length,
                    !.fLargestStart = IF valid THEN @ ELSE 0,
                    !.fLargestLength = IF valid THEN @ ELSE 0,
                    !.fLargestValid = valid]

\* AllocationGroup::Free, the loop over the bitmap blocks (lines 474-496)
RECURSIVE GroupFreeLoop(_, _, _, _, _)
GroupFreeLoop(blocks, numBits, block, start, length) ==
    IF length <= 0 THEN blocks
    ELSE LET blockBits == NumBlockBits(numBits, block)
             freeLength == IF start + length > blockBits
                               THEN blockBits - start ELSE length
         IN  GroupFreeLoop(
                [blocks EXCEPT ![block] = BlockFree(@, start, freeLength)],
                numBits, block + 1, 0, length - freeLength)

GroupFreeBits(blocks, numBits, start, length) ==
    GroupFreeLoop(blocks, numBits, start \div BitsPerBlock,
        start % BitsPerBlock, length)

\* the bit of group-relative block "bit", read through an AllocationBlock
GroupIsUsed(blocks, numBits, bit) ==
    IsUsed(blocks[bit \div BitsPerBlock],
        NumBlockBits(numBits, bit \div BitsPerBlock), bit % BitsPerBlock)

\* ------------------------------------------------------------ AllocateBlocks
\* The search of BlockAllocator::AllocateBlocks.  A search state is the record
\* of the function's locals: best* (lines 747-749), the group loop's i,
\* groupIndex and start (line 751), and the allocation groups, whose
\* largest-run hints the search refreshes.

\* lines 805-843: the loop over the bits of bitmap block sc.block, from bit;
\* sc holds the locals of the scan of one group
RECURSIVE ScanBits(_, _, _, _, _)
ScanBits(blocks, numBits, numBitmapBlocks, maximum, sc) ==
    LET blockBits == NumBlockBits(numBits, sc.block)
    IN  IF sc.bit >= blockBits
            THEN sc
        ELSE IF ~IsUsed(blocks[sc.block], blockBits, sc.bit)
            THEN LET currentStart == IF sc.currentLength = 0
                                         THEN sc.currentBit ELSE sc.currentStart
                     currentLength == sc.currentLength + 1
                 IN  IF currentLength >= maximum
                        THEN [sc EXCEPT !.currentStart = currentStart,
                                        !.currentLength = currentLength,
                                        !.bestGroup = sc.groupIndex,
                                        !.bestStart = currentStart,
                                        !.bestLength = currentLength]
                        ELSE ScanBits(blocks, numBits, numBitmapBlocks, maximum,
                                [sc EXCEPT !.currentStart = currentStart,
                                           !.currentLength = currentLength,
                                           !.currentBit = @ + 1,
                                           !.bit = @ + 1])
        ELSE LET ended == sc.currentLength > 0
                 better == ended /\ sc.currentLength > sc.bestLength
                 larger == ended /\ sc.currentLength > sc.groupLargestLength
                 s1 == [sc EXCEPT
                          !.bestGroup = IF better THEN sc.groupIndex ELSE @,
                          !.bestStart = IF better THEN sc.currentStart ELSE @,
                          !.bestLength = IF better THEN sc.currentLength ELSE @,
                          !.groupLargestStart =
                              IF larger THEN sc.currentStart ELSE @,
                          !.groupLargestLength =
                              IF larger THEN sc.currentLength ELSE @,
                          !.currentLength = 0]
             IN  IF numBits - s1.currentBit <= s1.groupLargestLength
                    THEN [s1 EXCEPT !.block = numBitmapBlocks]
                    ELSE ScanBits(blocks, numBits, numBitmapBlocks, maximum,
                            [s1 EXCEPT !.currentBit = @ + 1, !.bit = @ + 1])

\* lines 797-855: the loop over the bitmap blocks of the group;
\* ScanBlocksNext is the end of one pass (lines 848-854), s1 the locals after
\* the pass's loop over the bits
RECURSIVE ScanBlocks(_, _, _, _, _), ScanBlocksNext(_, _, _, _, _)
ScanBlocks(blocks, numBits, numBitmapBlocks, maximum, sc) ==
    IF sc.block >= numBitmapBlocks THEN sc
    ELSE ScanBlocksNext(blocks, numBits, numBitmapBlocks, maximum,
            ScanBits(blocks, numBits, numBitmapBlocks, maximum, sc))

ScanBlocksNext(blocks, numBits, numBitmapBlocks, maximum, s1) ==
    IF s1.bestLength >= maximum
        THEN [s1 EXCEPT !.canFindGroupLargest = FALSE]
        ELSE ScanBlocks(blocks, numBits, numBitmapBlocks, maximum,
                [s1 EXCEPT !.block = @ + 1, !.bit = 0])

\* lines 857-874: the end of the scan of one group, with the update of best*
\* and of the group's largest-run hint; sc1 holds the locals after the loop
\* over the bitmap blocks; returns [best*, group]
ScanGroupEnd(group, groupIndex, sc1) ==
    LET atEnd == sc1.currentBit = group.fNumBits
        better == atEnd /\ sc1.currentLength > sc1.bestLength
        larger == /\ atEnd
                  /\ sc1.canFindGroupLargest
                  /\ sc1.currentLength > sc1.groupLargestLength
        groupLargestStart == IF larger THEN sc1.currentStart
                             ELSE sc1.groupLargestStart
        groupLargestLength == IF larger THEN sc1.currentLength
                              ELSE sc1.groupLargestLength
        refresh == /\ sc1.canFindGroupLargest
                   /\ ~group.fLargestValid
                   /\ groupLargestLength >= 0
    IN  [bestGroup |-> IF better THEN groupIndex ELSE sc1.bestGroup,
         bestStart |-> IF better THEN sc1.currentStart ELSE sc1.bestStart,
         bestLength |-> IF better THEN sc1.currentLength ELSE sc1.bestLength,
         group |-> IF refresh
                      THEN [group EXCEPT !.fLargestStart = groupLargestStart,
                                         !.fLargestLength = groupLargestLength,
                                         !.fLargestValid = TRUE]
                      ELSE group]

\* lines 790-874: the scan of one group from offset start; returns
\* [best*, group]
ScanGroup(blocks, group, groupIndex, start, maximum, best) ==
    ScanGroupEnd(group, groupIndex,
        ScanBlocks(blocks, group.fNumBits, group.fNumBitmapBlocks, maximum,
            [groupIndex |-> groupIndex,
             block |-> start \div BitsPerBlock,
             bit |-> start % BitsPerBlock,
             currentStart |-> 0, currentLength |-> 0,
             groupLargestStart |-> -1, groupLargestLength |-> -1,
             currentBit |-> start,
             canFindGroupLargest |-> (start = 0),
             bestGroup |-> best.bestGroup,
             bestStart |-> best.bestStart,
             bestLength |-> best.bestLength]))

\* lines 876-877 after the scan of a group: st with the scan's result r taken
\* over, and whether the loop over the groups is left
Scanned(st, groupIndex, maximum, r) ==
    [st |-> [st EXCEPT !.bestGroup = r.bestGroup,
                       !.bestStart = r.bestStart,
                       !.bestLength = r.bestLength,
                       !.groups = [@ EXCEPT ![groupIndex] = r.group]],
     break |-> r.bestLength >= maximum]

\* lines 752-877: one pass of the loop over the groups, for the group
\* st.groupIndex % fNumGroups; st = [i, groupIndex, start, best*, groups];
\* returns [st, break]: the locals after the pass, and whether the pass left
\* the loop
SearchGroup(bm, maximum, st) ==
    LET groupIndex == st.groupIndex % NumGroups
        group == st.groups[groupIndex]
        start == IF st.start < group.fFirstFree THEN group.fFirstFree
                 ELSE st.start
        adopted == [st EXCEPT !.bestGroup = groupIndex,
                              !.bestStart = group.fLargestStart,
                              !.bestLength = group.fLargestLength]
    IN  IF st.start >= group.fNumBits \/ group.fFreeBits = 0
            THEN [st |-> st, break |-> FALSE]
        ELSE IF group.fLargestValid /\ group.fLargestLength < st.bestLength
            THEN [st |-> st, break |-> FALSE]
        ELSE IF group.fLargestValid /\ group.fLargestStart >= start
            THEN IF group.fLargestLength >= st.bestLength
                    THEN [st |-> adopted,
                          break |-> group.fLargestLength >= maximum]
                    ELSE [st |-> st, break |-> FALSE]
        ELSE Scanned(st, groupIndex, maximum,
                ScanGroup(bm[groupIndex], group, groupIndex, start, maximum,
                    st))

\* lines 751-878: the loop over the groups; SearchGroupsNext is the loop's
\* step "i++, groupIndex++, start = 0" after the pass for groupIndex;
\* returns the final st
RECURSIVE SearchGroups(_, _, _), SearchGroupsNext(_, _, _, _)
SearchGroups(bm, maximum, st) ==
    IF st.i >= NumGroups + 1 THEN st
    ELSE SearchGroupsNext(bm, maximum, st.groupIndex % NumGroups,
            SearchGroup(bm, maximum, st))

SearchGroupsNext(bm, maximum, groupIndex, pass) ==
    IF pass.break THEN pass.st
    ELSE SearchGroups(bm, maximum,
            [pass.st EXCEPT !.i = @ + 1,
                            !.groupIndex = groupIndex + 1,
                            !.start = 0])

\* lines 746-878: the block_run that fulfils the request best
Search(bm, grps, groupIndex, start, maximum) ==
    SearchGroups(bm, maximum,
        [i |-> 0, groupIndex |-> groupIndex, start |-> start,
         bestGroup |-> -1, bestStart |-> -1, bestLength |-> -1,
         groups |-> grps])

\* round_down(a, b) of the BFS utility header: a rounded down to a multiple
\* of b
round_down(a, b) == (a \div b) * b

\* ChosenLength without the rounding to a multiple of minimum
ChosenLengthUnrounded(bestLength, maximum, minimum) ==
    IF bestLength > maximum THEN maximum
    ELSE bestLength

\* ChosenLength without the cut to maximum
ChosenLengthUncut(bestLength, maximum, minimum) ==
    IF minimum > 1 THEN round_down(bestLength, minimum)
    ELSE bestLength

\* lines 885-890: the length allocated from a best run of bestLength blocks
ChosenLength(bestLength, maximum, minimum) ==
    IF bestLength > maximum THEN maximum
    ELSE IF minimum > 1 THEN round_down(bestLength, minimum)
    ELSE bestLength

NoRun == [allocation_group |-> -1, start |-> 0, length |-> 0]

\* lines 880-915: the end of AllocateBlocks, st the locals after the search
AllocateBlocksCommit(bm, used, maximum, minimum, st) ==
    IF st.bestLength < minimum
        THEN [status |-> B_DEVICE_FULL, run |-> NoRun, bitmap |-> bm,
              groups |-> st.groups, used_blocks |-> used]
    ELSE
    LET bestLength == ChosenLength(st.bestLength, maximum, minimum)
        g == st.bestGroup
    IN  [status |-> B_OK,
         run |-> [allocation_group |-> g, start |-> st.bestStart,
                  length |-> bestLength],
         bitmap |-> [bm EXCEPT ![g] =
                        GroupAllocateBits(@, st.groups[g].fNumBits,
                            st.bestStart, bestLength)],
         groups |-> [st.groups EXCEPT ![g] =
                        GroupAllocateInfo(@, st.bestStart, bestLength)],
         used_blocks |-> used + bestLength]

\* BlockAllocator::AllocateBlocks as a function of the allocator's state:
\* [status, run, bitmap, groups, used_blocks]
AllocateBlocksResult(bm, grps, used, groupIndex, start, maximum, minimum) ==
    IF maximum = 0
        THEN [status |-> B_BAD_VALUE, run |-> NoRun, bitmap |-> bm,
              groups |-> grps, used_blocks |-> used]
        ELSE AllocateBlocksCommit(bm, used, maximum, minimum,
                Search(bm, grps, groupIndex, start, maximum))

\* ------------------------------------------------------------ CheckBlocks
\* lines 1266-1291 of BlockAllocator::CheckBlocks: the walk over the bitmap
\* blocks; block is the volume block number of the bit looked at
RECURSIVE CheckBlocksLoop(_, _, _, _, _, _, _, _)
CheckBlocksLoop(bm, grps, group, groupBlock, blockOffset, length, block, allocated) ==
    IF length <= 0 \/ group >= NumGroups
            \/ groupBlock >= grps[group].fNumBitmapBlocks
        THEN [status |-> B_OK, firstError |-> -1]
    ELSE
    LET blockBits == NumBlockBits(grps[group].fNumBits, groupBlock)
    IN  IF blockOffset < blockBits
            THEN IF IsUsed(bm[group][groupBlock], blockBits, blockOffset)
                        # allocated
                    THEN [status |-> "B_BAD_DATA", firstError |-> block]
                    ELSE CheckBlocksLoop(bm, grps, group, groupBlock,
                            blockOffset + 1, length - 1, block + 1, allocated)
            ELSE IF groupBlock + 1 >= grps[group].fNumBitmapBlocks
                    THEN CheckBlocksLoop(bm, grps, group + 1, 0, 0, length,
                            block, allocated)
                    ELSE CheckBlocksLoop(bm, grps, group, groupBlock + 1, 0,
                            length, block, allocated)

\* CheckBlocks with the number of the bitmap block not reduced to the block's
\* number in its group
CheckBlocksBlockOfVolume(bm, grps, start, length, allocated) ==
    IF start < 0 \/ start + length > NumBlocks
        THEN [status |-> B_BAD_VALUE, firstError |-> -1]
        ELSE CheckBlocksLoop(bm, grps, start \div BitsPerGroup,
                start \div BitsPerBlock,
                start % BitsPerBlock, length, start, allocated)

\* BlockAllocator::CheckBlocks
CheckBlocks(bm, grps, start, length, allocated) ==
    IF start < 0 \/ start + length > NumBlocks
        THEN [status |-> B_BAD_VALUE, firstError |-> -1]
        ELSE CheckBlocksLoop(bm, grps, start \div BitsPerGroup,
                (start \div BitsPerBlock) % BlocksPerGroup,
                start % BitsPerBlock, length, start, allocated)

\* ------------------------------------------------------------ Trim
\* The locals of BlockAllocator::Trim are the record t:
\*   ranges       trimData->ranges[0 .. range_count - 1]
\*   requests     the B_TRIM_DEVICE requests issued so far, each the ranges
\*                it held
\*   trimmedSize, firstFree, freeLength, currentBlock, status
\* The device is "all" (it discards every range it is given and reports their
\* sizes) or "error" (the ioctl fails).

RECURSIVE SumSizes(_)
SumSizes(ranges) ==
    IF ranges = <<>> THEN 0
    ELSE Head(ranges).size + SumSizes(Tail(ranges))

\* BlockAllocator::_AddTrim: the ranges after the call
AddTrim(ranges, offset, size) ==
    IF size = 0 THEN ranges
    ELSE Append(ranges, [offset |-> offset, size |-> size])

\* TrimDevice that leaves range_count as it is after the ioctl
TrimDeviceRangesKept(t, device, ranges) ==
    IF device = "error"
        THEN [t EXCEPT !.status = B_ERROR, !.ranges = ranges,
                       !.requests = Append(@, ranges)]
        ELSE [t EXCEPT !.ranges = ranges,
                       !.requests = Append(@, ranges),
                       !.trimmedSize = @ + SumSizes(ranges)]

\* the ioctl of _TrimNext, and what follows it
TrimDevice(t, device, ranges) ==
    IF device = "error"
        THEN [t EXCEPT !.status = B_ERROR, !.ranges = ranges,
                       !.requests = Append(@, ranges)]
        ELSE [t EXCEPT !.ranges = <<>>,
                       !.requests = Append(@, ranges),
                       !.trimmedSize = @ + SumSizes(ranges)]

\* BlockAllocator::_TrimNext, ranges the ranges _AddTrim has left
TrimNextAdded(t, device, size, force, ranges) ==
    IF (size # 0 /\ Len(ranges) = kTrimRanges) \/ force
        THEN TrimDevice(t, device, ranges)
        ELSE [t EXCEPT !.ranges = ranges]

TrimNext(t, device, offset, size, force) ==
    TrimNextAdded(t, device, size, force, AddTrim(t.ranges, offset, size))

\* TrimBit with firstFree set at every free bit
TrimBitFirstFreeMoved(t, device, used) ==
    IF used
        THEN IF t.freeLength > 0
                THEN [TrimNext(t, device, t.firstFree * BlockSize,
                            t.freeLength * BlockSize, FALSE)
                        EXCEPT !.freeLength = 0,
                               !.currentBlock = @ + 1]
                ELSE [t EXCEPT !.currentBlock = @ + 1]
        ELSE [t EXCEPT !.firstFree = t.currentBlock,
                       !.freeLength = @ + 1,
                       !.currentBlock = @ + 1]

\* the body of the innermost loop of Trim for bit i of the bitmap block
TrimBit(t, device, used) ==
    IF used
        THEN IF t.freeLength > 0
                THEN [TrimNext(t, device, t.firstFree * BlockSize,
                            t.freeLength * BlockSize, FALSE)
                        EXCEPT !.freeLength = 0,
                               !.currentBlock = @ + 1]
                ELSE [t EXCEPT !.currentBlock = @ + 1]
        ELSE [t EXCEPT !.firstFree = IF t.freeLength = 0
                                        THEN t.currentBlock ELSE @,
                       !.freeLength = @ + 1,
                       !.currentBlock = @ + 1]

\* the three loops of Trim over groups, bitmap blocks and bits
RECURSIVE TrimLoop(_, _, _, _, _, _, _)
TrimLoop(bm, grps, device, groupIndex, block, i, t) ==
    IF t.status # B_OK THEN t
    ELSE IF groupIndex > NumGroups - 1
        THEN TrimNext(t, device, t.firstFree * BlockSize,
                t.freeLength * BlockSize, TRUE)
    ELSE IF block >= grps[groupIndex].fNumBitmapBlocks
        THEN TrimLoop(bm, grps, device, groupIndex + 1, 0, 0, t)
    ELSE IF i >= NumBlockBits(grps[groupIndex].fNumBits, block)
        THEN TrimLoop(bm, grps, device, groupIndex, block + 1, 0, t)
    ELSE TrimLoop(bm, grps, device, groupIndex, block, i + 1,
            TrimBit(t, device,
                IsUsed(bm[groupIndex][block],
                    NumBlockBits(grps[groupIndex].fNumBits, block), i)))

\* BlockAllocator::Trim: [status, trimmedSize, requests]; trimmedSize is -1
\* when Trim returns before it has written it
TrimResult(bm, grps, device, offset, size) ==
    IF offset # 0 \/ NumBlocks < 0 \/ size < NumBlocks * BlockSize
        THEN [status |-> B_UNSUPPORTED, trimmedSize |-> -1, requests |-> <<>>]
        ELSE TrimLoop(bm, grps, device, 0, 0, 0,
                [status |-> B_OK, trimmedSize |-> 0, requests |-> <<>>,
                 ranges |-> <<>>, firstFree |-> 0, freeLength |-> 0,
                 currentBlock |-> 0])

\* ------------------------------------------------------------ initialization
\* ToBlock(Log()) + Log().Length(): the blocks reserved at the start of the
\* volume (lines 597 and 681)
ReservedBlocks == ToBlock(LogGroup, LogStart) + LogLength

\* the bitmap blocks of one group with every bit clear
ClearBlocks == [b \in 0 .. (BlocksPerGroup - 1) |->
                   [c \in 0 .. (ChunksPerBlock - 1) |-> {}]]

\* lines 579-592: the group after the bitmap has been cleared
FormattedGroup(i) ==
    [fNumBits |-> GroupNumBits(i),
     fNumBitmapBlocks |-> GroupNumBitmapBlocks(i),
     fStart |-> 1 + i * BlocksPerGroup,
     fFirstFree |-> 0, fFreeBits |-> GroupNumBits(i),
     fLargestStart |-> 0, fLargestLength |-> GroupNumBits(i),
     fLargestValid |-> TRUE]

\* lines 599-608: the loop that reserves the first blocks of the volume
RECURSIVE ReserveLoop(_, _, _, _)
ReserveLoop(bm, grps, i, blocksToReserve) ==
    IF i >= NumGroups THEN [bitmap |-> bm, groups |-> grps]
    ELSE
    LET reservedBlocksInGroup == Min(blocksToReserve, BitsPerGroup)
        bm1 == [bm EXCEPT ![i] = GroupAllocateBits(@, grps[i].fNumBits, 0,
                                    reservedBlocksInGroup)]
        grps1 == [grps EXCEPT ![i] =
                    GroupAllocateInfo(@, 0, reservedBlocksInGroup)]
    IN  IF blocksToReserve - reservedBlocksInGroup = 0
            THEN [bitmap |-> bm1, groups |-> grps1]
            ELSE ReserveLoop(bm1, grps1, i + 1,
                    blocksToReserve - reservedBlocksInGroup)

\* InitializeAndClearBitmapResult without the loop of lines 599-608
InitializeAndClearBitmapResultUnreserved ==
    [bitmap |-> [i \in GroupIds |-> ClearBlocks],
     groups |-> [i \in GroupIds |-> FormattedGroup(i)],
     used_blocks |-> ReservedBlocks]

\* BlockAllocator::InitializeAndClearBitmap: [bitmap, groups, used_blocks]
InitializeAndClearBitmapResult ==
    LET r == ReserveLoop([i \in GroupIds |-> ClearBlocks],
                [i \in GroupIds |-> FormattedGroup(i)], 0, ReservedBlocks)
    IN  [bitmap |-> r.bitmap, groups |-> r.groups,
         used_blocks |-> ReservedBlocks]

\* lines 657-672: the scan of the raw bitmap of one group; buffer[k] is chunk
\* k of the group's bitmap blocks as read from the device
RECURSIVE ScanFreeRanges(_, _, _, _, _)
ScanFreeRanges(blocks, grp, bit, start, range) ==
    IF bit >= grp.fNumBits
        THEN IF range > 0 THEN AddFreeRange(grp, start, range) ELSE grp
    ELSE
    LET k == bit \div ChunkBits
        j == bit % ChunkBits
        chunk == blocks[k \div ChunksPerBlock][k % ChunksPerBlock]
    IN  IF j \in chunk
            THEN ScanFreeRanges(blocks,
                    IF range > 0 THEN AddFreeRange(grp, start, range) ELSE grp,
                    bit + 1, start, 0)
            ELSE ScanFreeRanges(blocks, grp, bit + 1,
                    IF range = 0 THEN bit ELSE start, range + 1)

\* lines 636-677: the group as the mount-time scan leaves it
ScannedGroup(blocks, i) ==
    ScanFreeRanges(blocks,
        [NewGroup EXCEPT !.fNumBits = GroupNumBits(i),
                         !.fNumBitmapBlocks = GroupNumBitmapBlocks(i),
                         !.fStart = 1 + i * BlocksPerGroup],
        0, -1, 0)

RECURSIVE Sum(_, _)
Sum(f, S) == IF S = {} THEN 0
             ELSE LET x == CHOOSE y \in S : TRUE
                  IN  f[x] + Sum(f, S \ {x})

\* InitializeResult with the repair made on read-only volumes as well
InitializeResultRepairReadOnly(bm, ro) ==
    LET scanned == [i \in GroupIds |-> ScannedGroup(bm[i], i)]
        freeBlocks == Sum([i \in GroupIds |-> scanned[i].fFreeBits], GroupIds)
        reserved == CheckBlocks(bm, scanned, 0, ReservedBlocks, TRUE).status
                        = B_OK
        heal == ~reserved
    IN  [bitmap |-> IF heal
                       THEN [bm EXCEPT ![0] = GroupAllocateBits(@,
                                scanned[0].fNumBits, 0, ReservedBlocks)]
                       ELSE bm,
         groups |-> IF heal
                       THEN [scanned EXCEPT ![0] =
                                GroupAllocateInfo(@, 0, ReservedBlocks)]
                       ELSE scanned,
         used_blocks |-> NumBlocks - freeBlocks,
         done |-> IF heal THEN 1 ELSE 0]

\* BlockAllocator::_Initialize: [bitmap, groups, used_blocks, done]; done
\* counts the calls of Transaction::Done() (line 694)
InitializeResult(bm, ro) ==
    LET scanned == [i \in GroupIds |-> ScannedGroup(bm[i], i)]
        freeBlocks == Sum([i \in GroupIds |-> scanned[i].fFreeBits], GroupIds)
        reserved == CheckBlocks(bm, scanned, 0, ReservedBlocks, TRUE).status
                        = B_OK
        heal == ~reserved /\ ~ro
    IN  [bitmap |-> IF heal
                       THEN [bm EXCEPT ![0] = GroupAllocateBits(@,
                                scanned[0].fNumBits, 0, ReservedBlocks)]
                       ELSE bm,
         groups |-> IF heal
                       THEN [scanned EXCEPT ![0] =
                                GroupAllocateInfo(@, 0, ReservedBlocks)]
                       ELSE scanned,
         used_blocks |-> NumBlocks - freeBlocks,
         done |-> IF heal THEN 1 ELSE 0]

\* ------------------------------------------------------------ Free
\* FreeResult without the check for the reserved area (lines 1024-1032)
FreeResultReservedAccepted(bm, grps, used, group, start, length) ==
    IF \/ group < 0 \/ group >= NumGroups
       \/ start > grps[group].fNumBits
       \/ start + length > grps[group].fNumBits
       \/ length = 0
        THEN [status |-> B_BAD_VALUE, bitmap |-> bm, groups |-> grps,
              used_blocks |-> used]
    ELSE [status |-> B_OK,
          bitmap |-> [bm EXCEPT ![group] =
                        GroupFreeBits(@, grps[group].fNumBits, start, length)],
          groups |-> [grps EXCEPT ![group] = GroupFreeInfo(@, start, length)],
          used_blocks |-> used - length]

\* FreeResult without the check for an empty run (line 1015)
FreeResultEmptyAccepted(bm, grps, used, group, start, length) ==
    IF \/ group < 0 \/ group >= NumGroups
       \/ start > grps[group].fNumBits
       \/ start + length > grps[group].fNumBits
        THEN [status |-> B_BAD_VALUE, bitmap |-> bm, groups |-> grps,
              used_blocks |-> used]
    ELSE IF \/ group < LogGroup
            \/ group = LogGroup /\ start < LogStart + LogLength
        THEN [status |-> B_BAD_VALUE, bitmap |-> bm, groups |-> grps,
              used_blocks |-> used]
    ELSE [status |-> B_OK,
          bitmap |-> [bm EXCEPT ![group] =
                        GroupFreeBits(@, grps[group].fNumBits, start, length)],
          groups |-> [grps EXCEPT ![group] = GroupFreeInfo(@, start, length)],
          used_blocks |-> used - length]

\* BlockAllocator::Free as a function of the allocator's state:
\* [status, bitmap, groups, used_blocks]
FreeResult(bm, grps, used, group, start, length) ==
    IF \/ group < 0 \/ group >= NumGroups
       \/ start > grps[group].fNumBits
       \/ start + length > grps[group].fNumBits
       \/ length = 0
        THEN [status |-> B_BAD_VALUE, bitmap |-> bm, groups |-> grps,
              used_blocks |-> used]
    ELSE IF \/ group < LogGroup
            \/ group = LogGroup /\ start < LogStart + LogLength
        THEN [status |-> B_BAD_VALUE, bitmap |-> bm, groups |-> grps,
              used_blocks |-> used]
    ELSE [status |-> B_OK,
          bitmap |-> [bm EXCEPT ![group] =
                        GroupFreeBits(@, grps[group].fNumBits, start, length)],
          groups |-> [grps EXCEPT ![group] = GroupFreeInfo(@, start, length)],
          used_blocks |-> used - length]

\* ------------------------------------------------------------ the state machine
NoCall == [op |-> "none"]
NoRet == [status |-> "none", run |-> NoRun]

\* the bitmap in which exactly the volume blocks of S are allocated
ImageOf(S) ==
    [g \in GroupIds |-> [b \in 0 .. (BlocksPerGroup - 1) |->
        [c \in 0 .. (ChunksPerBlock - 1) |->
            {j \in 0 .. (ChunkBits - 1) :
                ToBlock(g, b * BitsPerBlock + c * ChunkBits + j) \in S}]]]

\* the bitmaps a volume may hold when it is mounted
DiskImages == {ImageOf(S) : S \in SUBSET (0 .. (NumBlocks - 1))}

\* the used-block counts the super block may hold when the volume is mounted
PersistedUsed == {0, ReservedBlocks}

\* the arguments callers pass
StartHints == {0, 5}
GroupHints == GroupIds
Maxima == 0 .. MaxMaximum
Minima == 1 .. MaxMinimum
FreeGroups == -1 .. NumGroups
FreeStarts == 0 .. BitsPerGroup
FreeLengths == 0 .. MaxFreeLength
TrimOffsets == {0, BlockSize}
TrimSizes == {(NumBlocks - 1) * BlockSize, NumBlocks * BlockSize}
TrimDevices == {"all", "error"}

\* the threads: the one that runs _Initialize and the ones that call the
\* allocator while or after it runs
Scanner == "scanner"
Workers == {"t1", "t2"}
Threads == {Scanner} \cup Workers

\* a thread that is not in a call of the allocator
\* holds: how often the thread held fLock when it made its call
NoThread ==
    [pc |-> "idle", call |-> NoCall, ret |-> NoRet, best |-> NoRun, holds |-> 0]

\* the allocator is constructed on a volume whose bitmap is not yet read
Init ==
    /\ bitmap \in DiskImages
    /\ groups = [i \in GroupIds |-> NewGroup]
    /\ used_blocks \in PersistedUsed
    /\ readOnly \in BOOLEAN
    /\ phase = "new"
    /\ call = NoCall
    /\ ret = NoRet
    /\ fLock = "none"
    /\ threads = [t \in Threads |-> NoThread]
    /\ transactionsDone = 0
    /\ ioErrors = 0
    /\ fLockCount = 0

\* BlockAllocator::InitializeAndClearBitmap (format)
InitializeAndClearBitmap ==
    /\ phase = "new"
    /\ ~readOnly
    /\ LET r == InitializeAndClearBitmapResult
       IN  /\ bitmap' = r.bitmap
           /\ groups' = r.groups
           /\ used_blocks' = r.used_blocks
    /\ phase' = "returned"
    /\ call' = [op |-> "InitializeAndClearBitmap"]
    /\ ret' = [status |-> B_OK, run |-> NoRun]
    /\ UNCHANGED <<readOnly, fLock, threads, transactionsDone, ioErrors, fLockCount>>

\* BlockAllocator::Initialize(true) with the scan of _Initialize (mount)
Initialize ==
    /\ phase = "new"
    /\ LET r == InitializeResult(bitmap, readOnly)
       IN  /\ bitmap' = r.bitmap
           /\ groups' = r.groups
           /\ used_blocks' = r.used_blocks
           /\ transactionsDone' = transactionsDone + r.done
    /\ phase' = "returned"
    /\ call' = [op |-> "Initialize"]
    /\ ret' = [status |-> B_OK, run |-> NoRun]
    /\ UNCHANGED <<readOnly, fLock, threads, ioErrors, fLockCount>>

\* BlockAllocator::AllocateBlocks
AllocateBlocks(groupIndex, start, maximum, minimum) ==
    /\ phase = "idle"
    /\ ~readOnly
    /\ LET r == AllocateBlocksResult(bitmap, groups, used_blocks, groupIndex,
                    start, maximum, minimum)
       IN  /\ bitmap' = r.bitmap
           /\ groups' = r.groups
           /\ used_blocks' = r.used_blocks
           /\ ret' = [status |-> r.status, run |-> r.run]
    /\ phase' = "returned"
    /\ call' = [op |-> "AllocateBlocks", group |-> groupIndex, start |-> start,
                maximum |-> maximum, minimum |-> minimum]
    /\ UNCHANGED <<readOnly, fLock, threads, transactionsDone, ioErrors, fLockCount>>

\* every block of the run is allocated
RunAllocated(bm, grps, group, start, length) ==
    \A bit \in start .. (start + length - 1) :
        GroupIsUsed(bm[group], grps[group].fNumBits, bit)

\* BlockAllocator::Free; callers free only blocks that are allocated
Free(group, start, length) ==
    /\ phase = "idle"
    /\ ~readOnly
    /\ LET r == FreeResult(bitmap, groups, used_blocks, group, start, length)
       IN  /\ r.status = B_OK =>
                RunAllocated(bitmap, groups, group, start, length)
           /\ bitmap' = r.bitmap
           /\ groups' = r.groups
           /\ used_blocks' = r.used_blocks
           /\ ret' = [status |-> r.status, run |-> NoRun]
    /\ phase' = "returned"
    /\ call' = [op |-> "Free", group |-> group, start |-> start,
                length |-> length]
    /\ UNCHANGED <<readOnly, fLock, threads, transactionsDone, ioErrors, fLockCount>>

\* BlockAllocator::Trim; it only reads the allocator's state
Trim(offset, size, device) ==
    /\ phase = "idle"
    /\ LET r == TrimResult(bitmap, groups, device, offset, size)
       IN  ret' = [status |-> r.status, run |-> NoRun,
                   trimmedSize |-> r.trimmedSize, requests |-> r.requests]
    /\ phase' = "returned"
    /\ call' = [op |-> "Trim", offset |-> offset, size |-> size,
                device |-> device]
    /\ UNCHANGED <<bitmap, groups, used_blocks, readOnly, fLock, threads,
                 transactionsDone, ioErrors, fLockCount>>

\* the arguments of Trim: the whole volume, a range that does not start at 0,
\* a range shorter than the volume; the device matters only when Trim reaches
\* it
TrimCall ==
    \E offset \in TrimOffsets, size \in TrimSizes, device \in TrimDevices :
        /\ (offset # 0 \/ size < NumBlocks * BlockSize) => device = "all"
        /\ Trim(offset, size, device)

\* the bits of mode_t that AllocateForInode looks at
S_DIRECTORY == "S_DIRECTORY"
S_INDEX_DIR == "S_INDEX_DIR"
S_ATTR_DIR == "S_ATTR_DIR"

\* the kinds of inode callers create: a file, a directory, an index
\* directory, an attribute directory; a mode is the set of its bits
InodeTypes ==
    {{}, {S_DIRECTORY}, {S_DIRECTORY, S_INDEX_DIR}, {S_DIRECTORY, S_ATTR_DIR}}

\* lines 930-932: the group AllocateForInode asks for (a uint16)
InodeGroup(parent, type) ==
    IF type \cap {S_DIRECTORY, S_INDEX_DIR, S_ATTR_DIR} = {S_DIRECTORY}
        THEN (parent + 8) % (2 ^ 16)
        ELSE parent

\* BlockAllocator::AllocateForInode; parent is the group of the parent's run
AllocateForInode(parent, type) ==
    /\ phase = "idle"
    /\ ~readOnly
    /\ LET r == AllocateBlocksResult(bitmap, groups, used_blocks,
                    InodeGroup(parent, type), 0, 1, 1)
       IN  /\ bitmap' = r.bitmap
           /\ groups' = r.groups
           /\ used_blocks' = r.used_blocks
           /\ ret' = [status |-> r.status, run |-> r.run]
    /\ phase' = "returned"
    /\ call' = [op |-> "AllocateForInode", parent |-> parent, type |-> type]
    /\ UNCHANGED <<readOnly, fLock, threads, transactionsDone, ioErrors, fLockCount>>

AllocateForInodeCall ==
    \E parent \in GroupIds, type \in InodeTypes :
        AllocateForInode(parent, type)

MAX_BLOCK_RUN_LENGTH == 65535

\* the direct block runs of a data stream (NUM_DIRECT_BLOCKS, 12 in the BFS
\* format, scaled down)
NUM_DIRECT_BLOCKS == 2

\* a block_run with every field zero, and block_run::IsZero()
ZeroRun == [allocation_group |-> 0, start |-> 0, length |-> 0]
IsZero(run) == run = ZeroRun

\* lines 976-979: the index of the last direct run in use; direct[k] of the
\* source is direct[k + 1] of the sequence
RECURSIVE LastDirect(_, _)
LastDirect(direct, last) ==
    IF last < NUM_DIRECT_BLOCKS - 1 /\ ~IsZero(direct[last + 2])
        THEN LastDirect(direct, last + 1)
        ELSE last

\* lines 964-991: the group and start (both uint16) Allocate asks for.
\* An inode is [run, size, container, direct, max_indirect_range,
\* max_double_indirect_range]; container stands for
\* IsContainer() || IsSymLink()
AllocateHints(inode) ==
    IF inode.size > 0
        THEN IF inode.max_double_indirect_range = 0
                    /\ inode.max_indirect_range = 0
                THEN [group |-> inode.direct[LastDirect(inode.direct, 0) + 1]
                                    .allocation_group,
                      start |->
                        (inode.direct[LastDirect(inode.direct, 0) + 1].start
                            + inode.direct[LastDirect(inode.direct, 0) + 1]
                                .length) % (2 ^ 16)]
                ELSE [group |-> inode.run.allocation_group, start |-> 0]
    ELSE IF inode.container
        THEN [group |-> inode.run.allocation_group,
              start |-> inode.run.start]
        ELSE [group |-> (inode.run.allocation_group + 1) % (2 ^ 16),
              start |-> 0]

\* BlockAllocator::Allocate as a function of the allocator's state
AllocateResult(bm, grps, used, inode, numBlocks, minimum) ==
    IF numBlocks <= 0
        THEN [status |-> B_ERROR, run |-> NoRun, bitmap |-> bm,
              groups |-> grps, used_blocks |-> used]
        ELSE AllocateBlocksResult(bm, grps, used,
                AllocateHints(inode).group, AllocateHints(inode).start,
                Min(Min(numBlocks, grps[0].fNumBits), MAX_BLOCK_RUN_LENGTH),
                minimum)

\* the blocks of the inode and of its direct runs are allocated, as the
\* blocks of every inode on the volume are
OwnsAllocated(bm, grps, inode) ==
    /\ RunAllocated(bm, grps, inode.run.allocation_group, inode.run.start,
            inode.run.length)
    /\ \A k \in 1 .. NUM_DIRECT_BLOCKS :
            RunAllocated(bm, grps, inode.direct[k].allocation_group,
                inode.direct[k].start, inode.direct[k].length)

\* BlockAllocator::Allocate
Allocate(inode, numBlocks, minimum) ==
    /\ phase = "idle"
    /\ ~readOnly
    /\ OwnsAllocated(bitmap, groups, inode)
    /\ LET r == AllocateResult(bitmap, groups, used_blocks, inode, numBlocks,
                    minimum)
       IN  /\ bitmap' = r.bitmap
           /\ groups' = r.groups
           /\ used_blocks' = r.used_blocks
           /\ ret' = [status |-> r.status, run |-> r.run]
    /\ phase' = "returned"
    /\ call' = [op |-> "Allocate", inode |-> inode, numBlocks |-> numBlocks,
                minimum |-> minimum]
    /\ UNCHANGED <<readOnly, fLock, threads, transactionsDone, ioErrors, fLockCount>>

\* the inodes that ask for blocks: new files and directories in either
\* group, files with one or two direct runs, a file grown into the indirect
\* range
NewInodes ==
    {[run |-> [allocation_group |-> g, start |-> IF g = 0 THEN 2 ELSE 0,
               length |-> 1],
      size |-> 0, container |-> c, direct |-> <<ZeroRun, ZeroRun>>,
      max_indirect_range |-> 0, max_double_indirect_range |-> 0] :
        g \in GroupIds, c \in BOOLEAN}

DataStreams ==
    {<<[allocation_group |-> 0, start |-> s, length |-> 1], ZeroRun>> :
        s \in 3 .. 5}
    \cup {<<[allocation_group |-> 0, start |-> 3, length |-> 2], ZeroRun>>,
          <<[allocation_group |-> 1, start |-> 0, length |-> 1], ZeroRun>>,
          <<[allocation_group |-> 0, start |-> 3, length |-> 1],
            [allocation_group |-> 0, start |-> 5, length |-> 1]>>}

GrownInodes ==
    {[run |-> [allocation_group |-> 0, start |-> 2, length |-> 1],
      size |-> 1, container |-> FALSE, direct |-> d,
      max_indirect_range |-> i, max_double_indirect_range |-> 0] :
        d \in DataStreams, i \in {0, 1}}

AllocateCall ==
    \E inode \in NewInodes \cup GrownInodes, numBlocks \in 0 .. 2 :
        /\ (inode.max_indirect_range # 0) =>
                (inode.direct[1].start = 3 /\ inode.direct[2] = ZeroRun)
        /\ (numBlocks = 0) => (inode.size = 0 /\ ~inode.container)
        /\ Allocate(inode, numBlocks, 1)

\* an owned run is freed
FreeOwnedCall ==
    \E g \in GroupIds, s \in {0, 2, 3, 4} : Free(g, s, 1)

\* the caller has taken the result; the allocator waits for the next call
Return ==
    /\ phase = "returned"
    /\ phase' = "idle"
    /\ call' = NoCall
    /\ ret' = NoRet
    /\ UNCHANGED <<bitmap, groups, used_blocks, readOnly, fLock, threads,
                 transactionsDone, ioErrors, fLockCount>>

Next ==
    \/ InitializeAndClearBitmap
    \/ Initialize
    \/ \E g \in GroupHints, s \in StartHints, mx \in Maxima, mn \in Minima :
            /\ mn <= mx \/ (mx = 0 /\ mn = 1 /\ g = 0 /\ s = 0)
            /\ AllocateBlocks(g, s, mx, mn)
    \/ \E g \in FreeGroups, s \in FreeStarts, l \in FreeLengths :
            /\ IF g \in GroupIds THEN s <= GroupNumBits(g) + 1
                                 ELSE s = 0 /\ l = 1
            /\ Free(g, s, l)
    \/ TrimCall
    \/ AllocateForInodeCall
    \/ Return

Spec == Init /\ [][Next]_vars

\* the calls made on a volume once it is formatted or mounted
AllocateBlocksCall ==
    \E g \in GroupHints, s \in StartHints, mx \in Maxima, mn \in Minima :
        /\ mn <= mx \/ (mx = 0 /\ mn = 1 /\ g = 0 /\ s = 0)
        /\ AllocateBlocks(g, s, mx, mn)

FreeCall ==
    \E g \in FreeGroups, s \in FreeStarts, l \in FreeLengths :
        /\ IF g \in GroupIds THEN s <= GroupNumBits(g) + 1
                             ELSE s = 0 /\ l = 1
        /\ Free(g, s, l)

\* the volume is formatted (not mounted) and then used
NextFormat ==
    \/ InitializeAndClearBitmap
    \/ AllocateBlocksCall
    \/ FreeCall
    \/ Return

SpecFormat == Init /\ [][NextFormat]_vars

\* BlockAllocator::CheckBlocks called with the volume block numbers start ..
\* start + length - 1; firstError is what the call has stored in *firstError
\* (-1: nothing)
CallCheckBlocks(start, length, allocated) ==
    /\ phase = "idle"
    /\ LET r == CheckBlocks(bitmap, groups, start, length, allocated)
       IN  ret' = [status |-> r.status, run |-> NoRun,
                   firstError |-> r.firstError]
    /\ phase' = "returned"
    /\ call' = [op |-> "CheckBlocks", start |-> start, length |-> length,
                allocated |-> allocated]
    /\ UNCHANGED <<bitmap, groups, used_blocks, readOnly, fLock, threads,
                 transactionsDone, ioErrors, fLockCount>>

\* the longest range a caller has checked
MaxCheckLength == 3

CheckBlocksCall ==
    \E start \in -1 .. NumBlocks, length \in 0 .. MaxCheckLength,
       allocated \in BOOLEAN :
        CallCheckBlocks(start, length, allocated)

\* a volume is formatted or mounted, and ranges of its bitmap are checked
NextCheck ==
    \/ InitializeAndClearBitmap
    \/ Initialize
    \/ CheckBlocksCall
    \/ Return

SpecCheck == Init /\ [][NextCheck]_vars

\* the allocator as the inode layer uses it on a formatted or mounted volume
NextInode ==
    \/ InitializeAndClearBitmap
    \/ Initialize
    \/ AllocateCall
    \/ AllocateForInodeCall
    \/ FreeOwnedCall
    \/ Return

SpecInode == Init /\ [][NextInode]_vars

\* AllocationGroup::Allocate on fGroups[g] (lines 378-438).  It does not look
\* at the bits it sets; its callers pass a run of free blocks (line 892) or
\* the reserved prefix (lines 601 and 689, part of InitializeAndClearBitmap
\* and Initialize here).  It leaves the volume's used blocks count alone.
GroupAllocate(g, start, length) ==
    /\ phase = "idle"
    /\ ~readOnly
    /\ start + length <= groups[g].fNumBits
    /\ \A bit \in start .. (start + length - 1) :
            ~GroupIsUsed(bitmap[g], groups[g].fNumBits, bit)
    /\ bitmap' = [bitmap EXCEPT ![g] =
                    GroupAllocateBits(@, groups[g].fNumBits, start, length)]
    /\ groups' = [groups EXCEPT ![g] = GroupAllocateInfo(@, start, length)]
    /\ ret' = [status |-> B_OK, run |-> NoRun]
    /\ phase' = "returned"
    /\ call' = [op |-> "GroupAllocate", group |-> g, start |-> start,
                length |-> length]
    /\ UNCHANGED <<used_blocks, readOnly, fLock, threads, transactionsDone, ioErrors, fLockCount>>

GroupAllocateCall ==
    \E g \in GroupIds, start \in 0 .. (BitsPerGroup - 1),
       length \in 1 .. BitsPerGroup :
        GroupAllocate(g, start, length)

\* AllocationGroup::Free on fGroups[g] (lines 447-498), called by
\* BlockAllocator::Free (line 1040) with a run it has found valid and outside
\* the reserved prefix; the blocks of the run are allocated
GroupFree(g, start, length) ==
    /\ phase = "idle"
    /\ ~readOnly
    /\ start + length <= groups[g].fNumBits
    /\ ToBlock(g, start) >= ReservedBlocks
    /\ RunAllocated(bitmap, groups, g, start, length)
    /\ bitmap' = [bitmap EXCEPT ![g] =
                    GroupFreeBits(@, groups[g].fNumBits, start, length)]
    /\ groups' = [groups EXCEPT ![g] = GroupFreeInfo(@, start, length)]
    /\ ret' = [status |-> B_OK, run |-> NoRun]
    /\ phase' = "returned"
    /\ call' = [op |-> "GroupFree", group |-> g, start |-> start,
                length |-> length]
    /\ UNCHANGED <<used_blocks, readOnly, fLock, threads, transactionsDone, ioErrors, fLockCount>>

GroupFreeCall ==
    \E g \in GroupIds, start \in 0 .. (BitsPerGroup - 1),
       length \in 1 .. MaxFreeLength :
        GroupFree(g, start, length)

\* the allocation groups of a formatted or mounted volume, called directly
NextGroup ==
    \/ InitializeAndClearBitmap
    \/ Initialize
    \/ GroupAllocateCall
    \/ GroupFreeCall
    \/ Return

SpecGroup == Init /\ [][NextGroup]_vars

\* AllocationBlock::Allocate called in a KDEBUG build on bitmap block
\* "block" of group g, bound with SetToWritable; the ASSERTs of lines 276-277
\* hold.  "before" is the bitmap block as the call found it.
AllocationBlockAllocate(g, block, start, numBlocks) ==
    /\ phase = "idle"
    /\ ~readOnly
    /\ block < groups[g].fNumBitmapBlocks
    /\ start < NumBlockBits(groups[g].fNumBits, block)
    /\ start + numBlocks <= NumBlockBits(groups[g].fNumBits, block)
    /\ LET r == BlockAllocateKDEBUG(bitmap[g][block], start, numBlocks)
       IN  /\ bitmap' = [bitmap EXCEPT ![g][block] = r.chunks]
           /\ ret' = [status |-> IF r.panic THEN "panic" ELSE B_OK,
                      run |-> NoRun]
           /\ phase' = IF r.panic THEN "panicked" ELSE "returned"
    /\ call' = [op |-> "AllocationBlock::Allocate", group |-> g,
                block |-> block, start |-> start, numBlocks |-> numBlocks,
                before |-> bitmap[g][block]]
    /\ UNCHANGED <<groups, used_blocks, readOnly, fLock, threads,
                 transactionsDone, ioErrors, fLockCount>>

AllocationBlockAllocateCall ==
    \E g \in GroupIds, block \in 0 .. (BlocksPerGroup - 1),
       start \in 0 .. (BitsPerBlock - 1), numBlocks \in 0 .. BitsPerBlock :
        AllocationBlockAllocate(g, block, start, numBlocks)

\* AllocationBlock::Free called in a KDEBUG build; the ASSERTs of lines
\* 315-316 hold
AllocationBlockFree(g, block, start, numBlocks) ==
    /\ phase = "idle"
    /\ ~readOnly
    /\ block < groups[g].fNumBitmapBlocks
    /\ start < NumBlockBits(groups[g].fNumBits, block)
    /\ start + numBlocks <= NumBlockBits(groups[g].fNumBits, block)
    /\ LET r == BlockFreeKDEBUG(bitmap[g][block], start, numBlocks)
       IN  /\ bitmap' = [bitmap EXCEPT ![g][block] = r.chunks]
           /\ ret' = [status |-> IF r.panic THEN "panic" ELSE B_OK,
                      run |-> NoRun]
           /\ phase' = IF r.panic THEN "panicked" ELSE "returned"
    /\ call' = [op |-> "AllocationBlock::Free", group |-> g,
                block |-> block, start |-> start, numBlocks |-> numBlocks,
                before |-> bitmap[g][block]]
    /\ UNCHANGED <<groups, used_blocks, readOnly, fLock, threads,
                 transactionsDone, ioErrors, fLockCount>>

AllocationBlockFreeCall ==
    \E g \in GroupIds, block \in 0 .. (BlocksPerGroup - 1),
       start \in 0 .. (BitsPerBlock - 1), numBlocks \in 0 .. BitsPerBlock :
        AllocationBlockFree(g, block, start, numBlocks)

\* the bitmap blocks of a formatted volume, written directly in a KDEBUG
\* build
NextBlock ==
    \/ InitializeAndClearBitmap
    \/ AllocationBlockAllocateCall
    \/ AllocationBlockFreeCall
    \/ Return

SpecBlock == Init /\ [][NextBlock]_vars

\* ------------------------------------------------------------ I/O errors
\* The calls with a block cache that may refuse a bitmap block:
\* AllocationBlock::SetToWritable (lines 245-259) fails for the bitmap blocks
\* of the group that are in "failing".  Reads (SetTo) succeed.

\* AllocationGroup::Allocate, the loop of lines 420-435: [blocks, status]
RECURSIVE GroupAllocateLoopIO(_, _, _, _, _, _)
GroupAllocateLoopIO(blocks, numBits, block, start, length, failing) ==
    IF length <= 0 THEN [blocks |-> blocks, status |-> B_OK]
    ELSE IF block \in failing
        THEN [blocks |-> blocks, status |-> B_IO_ERROR]
    ELSE LET blockBits == NumBlockBits(numBits, block)
             numBlocks == IF start + length > blockBits
                              THEN blockBits - start ELSE length
         IN  GroupAllocateLoopIO(
                [blocks EXCEPT ![block] = BlockAllocate(@, start, numBlocks)],
                numBits, block + 1, 0, length - numBlocks, failing)

\* AllocationGroup::Allocate (lines 378-438): [blocks, group, status]
GroupAllocateIO(blocks, grp, start, length, failing) ==
    LET info == GroupAllocateInfo(grp, start, length)
        r == GroupAllocateLoopIO(blocks, grp.fNumBits, start \div BitsPerBlock,
                start % BitsPerBlock, length, failing)
    IN  [blocks |-> r.blocks,
         group |-> IF r.status = B_OK THEN info
                   ELSE [info EXCEPT !.fLargestStart = 0,
                                     !.fLargestLength = 0,
                                     !.fLargestValid = FALSE],
         status |-> r.status]

\* AllocationGroup::Free, the loop of lines 481-496: [blocks, status]
RECURSIVE GroupFreeLoopIO(_, _, _, _, _, _)
GroupFreeLoopIO(blocks, numBits, block, start, length, failing) ==
    IF length <= 0 THEN [blocks |-> blocks, status |-> B_OK]
    ELSE IF block \in failing
        THEN [blocks |-> blocks, status |-> B_IO_ERROR]
    ELSE LET blockBits == NumBlockBits(numBits, block)
             freeLength == IF start + length > blockBits
                               THEN blockBits - start ELSE length
         IN  GroupFreeLoopIO(
                [blocks EXCEPT ![block] = BlockFree(@, start, freeLength)],
                numBits, block + 1, 0, length - freeLength, failing)

\* AllocationGroup::Free (lines 447-498): [blocks, group, status]
GroupFreeIO(blocks, grp, start, length, failing) ==
    LET r == GroupFreeLoopIO(blocks, grp.fNumBits, start \div BitsPerBlock,
                start % BitsPerBlock, length, failing)
    IN  [blocks |-> r.blocks, group |-> GroupFreeInfo(grp, start, length),
         status |-> r.status]

\* one call of block_cache_discard (line 911): the range, and what the
\* allocator's state was when the call was made: the used blocks count and
\* whether the bits of the range were set
Discard(bm, grps, used, g, start, length) ==
    [block |-> ToBlock(g, start), length |-> length, used_blocks |-> used,
     marked |-> RunAllocated(bm, grps, g, start, length)]

\* AllocateBlocksCommitIO with the cache invalidated before the run is
\* allocated
AllocateBlocksCommitIODiscardFirst(bm, used, maximum, minimum, st, failing) ==
    IF st.bestLength < minimum
        THEN [status |-> B_DEVICE_FULL, run |-> NoRun, bitmap |-> bm,
              groups |-> st.groups, used_blocks |-> used, discards |-> <<>>]
    ELSE
    LET bestLength == ChosenLength(st.bestLength, maximum, minimum)
        g == st.bestGroup
        a == GroupAllocateIO(bm[g], st.groups[g], st.bestStart, bestLength,
                failing)
        discard == Discard(bm, st.groups, used, g, st.bestStart, bestLength)
        newBitmap == [bm EXCEPT ![g] = a.blocks]
        newGroups == [st.groups EXCEPT ![g] = a.group]
    IN  IF a.status # B_OK
            THEN [status |-> B_IO_ERROR, run |-> NoRun, bitmap |-> newBitmap,
                  groups |-> newGroups, used_blocks |-> used,
                  discards |-> <<discard>>]
            ELSE [status |-> B_OK,
                  run |-> [allocation_group |-> g, start |-> st.bestStart,
                           length |-> bestLength],
                  bitmap |-> newBitmap, groups |-> newGroups,
                  used_blocks |-> used + bestLength,
                  discards |-> <<discard>>]

\* lines 880-915, the end of AllocateBlocks: [status, run, bitmap, groups,
\* used_blocks, discards]; discards are the calls of block_cache_discard made
AllocateBlocksCommitIO(bm, used, maximum, minimum, st, failing) ==
    IF st.bestLength < minimum
        THEN [status |-> B_DEVICE_FULL, run |-> NoRun, bitmap |-> bm,
              groups |-> st.groups, used_blocks |-> used, discards |-> <<>>]
    ELSE
    LET bestLength == ChosenLength(st.bestLength, maximum, minimum)
        g == st.bestGroup
        a == GroupAllocateIO(bm[g], st.groups[g], st.bestStart, bestLength,
                failing)
        newBitmap == [bm EXCEPT ![g] = a.blocks]
        newGroups == [st.groups EXCEPT ![g] = a.group]
    IN  IF a.status # B_OK
            THEN [status |-> B_IO_ERROR, run |-> NoRun, bitmap |-> newBitmap,
                  groups |-> newGroups, used_blocks |-> used,
                  discards |-> <<>>]
            ELSE [status |-> B_OK,
                  run |-> [allocation_group |-> g, start |-> st.bestStart,
                           length |-> bestLength],
                  bitmap |-> newBitmap, groups |-> newGroups,
                  used_blocks |-> used + bestLength,
                  discards |-> <<Discard(newBitmap, newGroups,
                                    used + bestLength, g, st.bestStart,
                                    bestLength)>>]

\* BlockAllocator::AllocateBlocks (lines 730-916)
AllocateBlocksIOResult(bm, grps, used, groupIndex, start, maximum, minimum, failing) ==
    IF maximum = 0
        THEN [status |-> B_BAD_VALUE, run |-> NoRun, bitmap |-> bm,
              groups |-> grps, used_blocks |-> used, discards |-> <<>>]
        ELSE AllocateBlocksCommitIO(bm, used, maximum, minimum,
                Search(bm, grps, groupIndex, start, maximum), failing)

\* FreeIOResult with the used blocks count lowered before the group's Free
FreeIOResultCountFirst(bm, grps, used, group, start, length, failing) ==
    IF \/ group < 0 \/ group >= NumGroups
       \/ start > grps[group].fNumBits
       \/ start + length > grps[group].fNumBits
       \/ length = 0
        THEN [status |-> B_BAD_VALUE, bitmap |-> bm, groups |-> grps,
              used_blocks |-> used]
    ELSE IF \/ group < LogGroup
            \/ group = LogGroup /\ start < LogStart + LogLength
        THEN [status |-> B_BAD_VALUE, bitmap |-> bm, groups |-> grps,
              used_blocks |-> used]
    ELSE LET f == GroupFreeIO(bm[group], grps[group], start, length, failing)
         IN  [status |-> IF f.status # B_OK THEN B_IO_ERROR ELSE B_OK,
              bitmap |-> [bm EXCEPT ![group] = f.blocks],
              groups |-> [grps EXCEPT ![group] = f.group],
              used_blocks |-> used - length]

\* BlockAllocator::Free (lines 997-1055): [status, bitmap, groups, used_blocks]
FreeIOResult(bm, grps, used, group, start, length, failing) ==
    IF \/ group < 0 \/ group >= NumGroups
       \/ start > grps[group].fNumBits
       \/ start + length > grps[group].fNumBits
       \/ length = 0
        THEN [status |-> B_BAD_VALUE, bitmap |-> bm, groups |-> grps,
              used_blocks |-> used]
    ELSE IF \/ group < LogGroup
            \/ group = LogGroup /\ start < LogStart + LogLength
        THEN [status |-> B_BAD_VALUE, bitmap |-> bm, groups |-> grps,
              used_blocks |-> used]
    ELSE LET f == GroupFreeIO(bm[group], grps[group], start, length, failing)
         IN  [status |-> IF f.status # B_OK THEN B_IO_ERROR ELSE B_OK,
              bitmap |-> [bm EXCEPT ![group] = f.blocks],
              groups |-> [grps EXCEPT ![group] = f.group],
              used_blocks |-> IF f.status # B_OK THEN used ELSE used - length]

\* the I/O errors a volume is followed through
MaxIOErrors == 1

\* the sets of bitmap blocks of a group the block cache may refuse
FailingSets ==
    IF ioErrors < MaxIOErrors
        THEN {{}} \cup {{b} : b \in 0 .. (BlocksPerGroup - 1)}
        ELSE {{}}

\* BlockAllocator::AllocateBlocks with the block cache refusing "failing"
AllocateBlocksIO(groupIndex, start, maximum, minimum, failing) ==
    /\ phase = "idle"
    /\ ~readOnly
    /\ LET r == AllocateBlocksIOResult(bitmap, groups, used_blocks, groupIndex,
                    start, maximum, minimum, failing)
       IN  /\ bitmap' = r.bitmap
           /\ groups' = r.groups
           /\ used_blocks' = r.used_blocks
           /\ ret' = [status |-> r.status, run |-> r.run,
                      discards |-> r.discards]
           /\ ioErrors' = IF r.status = B_IO_ERROR THEN ioErrors + 1
                          ELSE ioErrors
    /\ phase' = "returned"
    /\ call' = [op |-> "AllocateBlocks", group |-> groupIndex, start |-> start,
                maximum |-> maximum, minimum |-> minimum, failing |-> failing]
    /\ UNCHANGED <<readOnly, fLock, threads, transactionsDone, fLockCount>>

AllocateBlocksIOCall ==
    \E g \in GroupHints, s \in StartHints, mx \in Maxima, mn \in Minima,
       failing \in FailingSets :
        /\ mn <= mx \/ (mx = 0 /\ mn = 1 /\ g = 0 /\ s = 0)
        /\ AllocateBlocksIO(g, s, mx, mn, failing)

\* BlockAllocator::Free with the block cache refusing "failing"; callers free
\* only blocks that are allocated
FreeIO(group, start, length, failing) ==
    /\ phase = "idle"
    /\ ~readOnly
    /\ LET r == FreeIOResult(bitmap, groups, used_blocks, group, start, length,
                    failing)
       IN  /\ r.status # B_BAD_VALUE =>
                RunAllocated(bitmap, groups, group, start, length)
           /\ bitmap' = r.bitmap
           /\ groups' = r.groups
           /\ used_blocks' = r.used_blocks
           /\ ret' = [status |-> r.status, run |-> NoRun, discards |-> <<>>]
           /\ ioErrors' = IF r.status = B_IO_ERROR THEN ioErrors + 1
                          ELSE ioErrors
    /\ phase' = "returned"
    /\ call' = [op |-> "Free", group |-> group, start |-> start,
                length |-> length, failing |-> failing]
    /\ UNCHANGED <<readOnly, fLock, threads, transactionsDone, fLockCount>>

FreeIOCall ==
    \E g \in FreeGroups, s \in FreeStarts, l \in FreeLengths,
       failing \in FailingSets :
        /\ IF g \in GroupIds THEN s <= GroupNumBits(g) + 1
                             ELSE s = 0 /\ l = 1
        /\ FreeIO(g, s, l, failing)

\* a formatted volume whose block cache may refuse bitmap blocks
NextIO ==
    \/ InitializeAndClearBitmap
    \/ AllocateBlocksIOCall
    \/ FreeIOCall
    \/ Return

SpecIO == Init /\ [][NextIO]_vars

\* ------------------------------------------------------------ threads
\* The allocator called from several threads while the scan of _Initialize
\* runs in its own thread. A worker thread t goes through
\*   "idle"   -> the call is made; what the function does before it takes
\*               fLock happens in the same step
\*   "lock"   -> RecursiveLocker lock(fLock): the thread waits for the lock
\*   "locked" -> the search of AllocateBlocks, or the whole of Free or Trim
\*   "commit" -> the end of AllocateBlocks (lines 880-915)
\*   "unlock" -> the destructor of the RecursiveLocker
\*   "done"
\* and the scanner through "locked" (one step for each group, then the check
\* of the reserved blocks), "unlock" and "done".

\* the disk images the threads are run on: only the reserved blocks used,
\* some more blocks used, the second reserved block not marked, all used
ThreadImages ==
    {ImageOf(0 .. (ReservedBlocks - 1)), ImageOf({0, 1, 2, 5}),
     ImageOf({0}), ImageOf(0 .. (NumBlocks - 1))}

InitThreads ==
    /\ Init
    /\ bitmap \in ThreadImages
    /\ ~readOnly
    /\ used_blocks = ReservedBlocks

\* a lock that never makes a thread wait
CanLockAlways(t) == TRUE

\* recursive_lock_lock by thread t returns: no other thread holds the lock
CanLock(t) == fLock \in {"none", t}

\* BlockAllocator::Initialize(true): the groups are created, the lock is
\* taken and handed to the thread that runs _Initialize
InitializeLaunch ==
    /\ phase = "new"
    /\ CanLock(Scanner)
    /\ fLock' = Scanner
    /\ fLockCount' = fLockCount + 1
    /\ threads' = [threads EXCEPT ![Scanner] =
                        [pc |-> "locked",
                         call |-> [op |-> "_Initialize", i |-> 0],
                         ret |-> NoRet, best |-> NoRun, holds |-> 0]]
    /\ phase' = "mounted"
    /\ UNCHANGED <<bitmap, groups, used_blocks, readOnly, call, ret,
                 transactionsDone, ioErrors>>

\* one pass of the loop of _Initialize (lines 636-677): group i is scanned
InitializeScanGroup ==
    /\ threads[Scanner].pc = "locked"
    /\ threads[Scanner].call.i < NumGroups
    /\ LET i == threads[Scanner].call.i
       IN  /\ groups' = [groups EXCEPT ![i] = ScannedGroup(bitmap[i], i)]
           /\ threads' = [threads EXCEPT ![Scanner].call.i = i + 1]
    /\ UNCHANGED <<bitmap, used_blocks, readOnly, phase, call, ret, fLock,
                 transactionsDone, ioErrors, fLockCount>>

\* the rest of _Initialize (lines 680-710): the reserved blocks are checked
\* and repaired, the used blocks counted
InitializeCheckReserved ==
    /\ threads[Scanner].pc = "locked"
    /\ threads[Scanner].call.i = NumGroups
    /\ LET r == InitializeResult(bitmap, readOnly)
       IN  /\ bitmap' = r.bitmap
           /\ groups' = r.groups
           /\ used_blocks' = r.used_blocks
           /\ transactionsDone' = transactionsDone + r.done
    /\ threads' = [threads EXCEPT ![Scanner].pc = "unlock",
                                  ![Scanner].ret = [status |-> B_OK,
                                                    run |-> NoRun]]
    /\ UNCHANGED <<readOnly, phase, call, ret, fLock, ioErrors, fLockCount>>

\* group g has not been filled in by the scan: its fNumBits, fNumBitmapBlocks
\* and fStart are what operator new[] left there (the constructor, lines
\* 343-349, does not set them)
Unscanned(g) ==
    threads[Scanner].call.op = "_Initialize" /\ threads[Scanner].call.i <= g

\* what a read of fNumBits and fNumBitmapBlocks of such a group may give:
\* zeroes, or the numbers of a full group
UninitializedValues == {<<0, 0>>, <<BitsPerGroup, BlocksPerGroup>>}

\* fGroups as a thread reads it without the lock
GroupsRead(garbage) ==
    [g \in GroupIds |->
        IF Unscanned(g)
            THEN [groups[g] EXCEPT !.fNumBits = garbage[1],
                                   !.fNumBitmapBlocks = garbage[2]]
            ELSE groups[g]]

\* how often thread t holds fLock
HoldCount(t) == IF fLock = t THEN fLockCount ELSE 0

\* thread t has made the call c and returned from it
Returned(t, c, r) ==
    threads' = [threads EXCEPT ![t] = [pc |-> "done", call |-> c, ret |-> r,
                                       best |-> NoRun,
                                       holds |-> HoldCount(t)]]

\* thread t has made the call c and is at the RecursiveLocker
AtLock(t, c) ==
    threads' = [threads EXCEPT ![t] = [pc |-> "lock", call |-> c,
                                       ret |-> NoRet, best |-> NoRun,
                                       holds |-> HoldCount(t)]]

\* thread t may call the allocator: Initialize has returned
MayCall(t) ==
    /\ threads[t].pc = "idle"
    /\ \/ phase = "mounted"
       \/ phase = "unmounting" /\ fLock = t

SharedUnchanged ==
    UNCHANGED <<bitmap, groups, used_blocks, readOnly, phase, call, ret, fLock,
                transactionsDone, ioErrors, fLockCount>>

\* BlockAllocator::AllocateBlocks up to the lock (lines 730-742)
ThreadAllocateBlocks(t, groupIndex, start, maximum, minimum) ==
    /\ MayCall(t)
    /\ LET c == [op |-> "AllocateBlocks", group |-> groupIndex,
                 start |-> start, maximum |-> maximum, minimum |-> minimum]
       IN  IF maximum = 0
               THEN Returned(t, c, [status |-> B_BAD_VALUE, run |-> NoRun])
               ELSE AtLock(t, c)
    /\ SharedUnchanged

\* BlockAllocator::Allocate for the first data of a file whose inode lies in
\* group inodeGroup (lines 936-991, inode->Size() = 0, not a container or
\* symlink), and AllocateBlocks up to the lock
ThreadAllocate(t, inodeGroup, numBlocks, minimum, garbage) ==
    /\ MayCall(t)
    /\ LET clipped == Min(Min(numBlocks, GroupsRead(garbage)[0].fNumBits),
                          MAX_BLOCK_RUN_LENGTH)
           c == [op |-> "Allocate", group |-> inodeGroup + 1, start |-> 0,
                 maximum |-> clipped, minimum |-> minimum,
                 numBlocks |-> numBlocks]
       IN  IF numBlocks <= 0
               THEN Returned(t, c, [status |-> B_ERROR, run |-> NoRun])
           ELSE IF clipped = 0
               THEN Returned(t, c, [status |-> B_BAD_VALUE, run |-> NoRun])
               ELSE AtLock(t, c)
    /\ SharedUnchanged

\* BlockAllocator::Free up to the lock; the caller frees blocks it owns
ThreadFree(t, group, start, length) ==
    /\ MayCall(t)
    /\ \A u \in Workers : threads[u].call.op # "Free"
    /\ \A b \in start .. (start + length - 1) :
            /\ b < GroupNumBits(group)
            /\ GroupIsUsed(bitmap[group], GroupNumBits(group), b)
    /\ AtLock(t, [op |-> "Free", group |-> group, start |-> start,
                  length |-> length])
    /\ SharedUnchanged

\* ThreadTrim with the lock taken before the arguments are looked at
ThreadTrimLockFirst(t, offset, size, device) ==
    /\ MayCall(t)
    /\ AtLock(t, [op |-> "Trim", offset |-> offset, size |-> size,
                  device |-> device])
    /\ SharedUnchanged

\* BlockAllocator::Trim up to the lock (lines 1163-1182)
ThreadTrim(t, offset, size, device) ==
    /\ MayCall(t)
    /\ LET c == [op |-> "Trim", offset |-> offset, size |-> size,
                 device |-> device]
       IN  IF offset # 0 \/ NumBlocks < 0 \/ size < NumBlocks * BlockSize
               THEN Returned(t, c, [status |-> B_UNSUPPORTED, run |-> NoRun,
                                    trimmedSize |-> -1, requests |-> <<>>])
               ELSE AtLock(t, c)
    /\ SharedUnchanged

\* BlockAllocator::CheckBlocks; it takes no lock
ThreadCheckBlocks(t, start, length, allocated, garbage) ==
    /\ MayCall(t)
    /\ Returned(t, [op |-> "CheckBlocks", start |-> start, length |-> length,
                    allocated |-> allocated],
            [status |-> CheckBlocks(bitmap, GroupsRead(garbage), start, length,
                            allocated).status,
             run |-> NoRun])
    /\ SharedUnchanged

\* BlockAllocator::IsValidBlockRun as a function of fGroups
IsValidBlockRun(grps, group, start, length) ==
    ~(\/ group < 0 \/ group >= NumGroups
      \/ start > grps[group].fNumBits
      \/ start + length > grps[group].fNumBits
      \/ length = 0)

\* BlockAllocator::IsValidBlockRun; it takes no lock
ThreadIsValidBlockRun(t, group, start, length, garbage) ==
    /\ MayCall(t)
    /\ Returned(t, [op |-> "IsValidBlockRun", group |-> group,
                    start |-> start, length |-> length],
            [status |-> IF IsValidBlockRun(GroupsRead(garbage), group, start,
                                length)
                            THEN "true" ELSE "false",
             run |-> NoRun])
    /\ SharedUnchanged

\* RecursiveLocker lock(fLock) (lines 742, 1000, 1182)
ThreadLock(t) ==
    /\ threads[t].pc = "lock"
    /\ CanLock(t)
    /\ fLock' = t
    /\ fLockCount' = fLockCount + 1
    /\ threads' = [threads EXCEPT ![t].pc = "locked"]
    /\ UNCHANGED <<bitmap, groups, used_blocks, readOnly, phase, call, ret,
                 transactionsDone, ioErrors>>

\* the search of AllocateBlocks (lines 746-878); it refreshes the largest-run
\* hints of the groups it scans from their start
ThreadSearch(t) ==
    /\ threads[t].pc = "locked"
    /\ threads[t].call.op \in {"AllocateBlocks", "Allocate"}
    /\ LET c == threads[t].call
           st == Search(bitmap, groups, c.group, c.start, c.maximum)
       IN  /\ groups' = st.groups
           /\ threads' = [threads EXCEPT ![t].pc = "commit",
                             ![t].best = [allocation_group |-> st.bestGroup,
                                          start |-> st.bestStart,
                                          length |-> st.bestLength]]
    /\ UNCHANGED <<bitmap, used_blocks, readOnly, phase, call, ret, fLock,
                 transactionsDone, ioErrors, fLockCount>>

\* the end of AllocateBlocks (lines 880-915)
ThreadCommit(t) ==
    /\ threads[t].pc = "commit"
    /\ LET c == threads[t].call
           best == threads[t].best
           r == AllocateBlocksCommit(bitmap, used_blocks, c.maximum, c.minimum,
                    [bestGroup |-> best.allocation_group,
                     bestStart |-> best.start, bestLength |-> best.length,
                     groups |-> groups])
       IN  /\ bitmap' = r.bitmap
           /\ groups' = r.groups
           /\ used_blocks' = r.used_blocks
           /\ threads' = [threads EXCEPT ![t].pc = "unlock",
                             ![t].ret = [status |-> r.status, run |-> r.run]]
    /\ UNCHANGED <<readOnly, phase, call, ret, fLock, transactionsDone, ioErrors, fLockCount>>

\* BlockAllocator::Free under the lock (lines 1002-1055)
ThreadFreeLocked(t) ==
    /\ threads[t].pc = "locked"
    /\ threads[t].call.op = "Free"
    /\ LET c == threads[t].call
           r == FreeResult(bitmap, groups, used_blocks, c.group, c.start,
                    c.length)
       IN  /\ bitmap' = r.bitmap
           /\ groups' = r.groups
           /\ used_blocks' = r.used_blocks
           /\ threads' = [threads EXCEPT ![t].pc = "unlock",
                             ![t].ret = [status |-> r.status, run |-> NoRun]]
    /\ UNCHANGED <<readOnly, phase, call, ret, fLock, transactionsDone, ioErrors, fLockCount>>

\* BlockAllocator::Trim under the lock (lines 1184-1239)
ThreadTrimLocked(t) ==
    /\ threads[t].pc = "locked"
    /\ threads[t].call.op = "Trim"
    /\ LET c == threads[t].call
           r == TrimResult(bitmap, groups, c.device, c.offset, c.size)
       IN  threads' = [threads EXCEPT ![t].pc = "unlock",
                          ![t].ret = [status |-> r.status, run |-> NoRun,
                                      trimmedSize |-> r.trimmedSize,
                                      requests |-> r.requests]]
    /\ SharedUnchanged

\* an unlock that gives the lock up however often it is held
ThreadUnlockAll(t) ==
    /\ threads[t].pc = "unlock"
    /\ fLock' = IF fLock = t THEN "none" ELSE fLock
    /\ fLockCount' = IF fLock = t THEN 0 ELSE fLockCount
    /\ threads' = [threads EXCEPT ![t].pc = "done"]
    /\ UNCHANGED <<bitmap, groups, used_blocks, readOnly, phase, call, ret,
                 transactionsDone, ioErrors>>

\* the end of a locked section that leaves the lock as it is
ThreadUnlockLockKept(t) ==
    /\ threads[t].pc = "unlock"
    /\ threads' = [threads EXCEPT ![t].pc = "done"]
    /\ SharedUnchanged

\* the RecursiveLocker of thread t is destroyed
ThreadUnlock(t) ==
    /\ threads[t].pc = "unlock"
    /\ fLock' = IF fLock = t /\ fLockCount = 1 THEN "none" ELSE fLock
    /\ fLockCount' = IF fLock = t THEN fLockCount - 1 ELSE fLockCount
    /\ threads' = [threads EXCEPT ![t].pc = "done"]
    /\ UNCHANGED <<bitmap, groups, used_blocks, readOnly, phase, call, ret,
                 transactionsDone, ioErrors>>

\* the calls the worker threads make
ThreadCalls(t) ==
    \/ \E g \in GroupIds, mx \in {0, 2} :
            ThreadAllocateBlocks(t, g, 0, mx, 1)
    \/ \E garbage \in UninitializedValues :
            ThreadAllocate(t, NumGroups - 1, 2, 1, garbage)
    \/ \E s \in {0, ReservedBlocks} : ThreadFree(t, 0, s, 1)
    \/ \E offset \in TrimOffsets, size \in TrimSizes :
            ThreadTrim(t, offset, size, "all")
    \/ \E garbage \in UninitializedValues :
            ThreadCheckBlocks(t, 0, ReservedBlocks, TRUE, garbage)
    \/ \E garbage \in UninitializedValues :
            ThreadIsValidBlockRun(t, NumGroups - 1, 0, 1, garbage)

NextThreads ==
    \/ InitializeLaunch
    \/ InitializeScanGroup
    \/ InitializeCheckReserved
    \/ \E t \in Workers :
            \/ ThreadCalls(t)
            \/ ThreadLock(t)
            \/ ThreadSearch(t)
            \/ ThreadCommit(t)
            \/ ThreadFreeLocked(t)
            \/ ThreadTrimLocked(t)
    \/ \E t \in Threads : ThreadUnlock(t)

SpecThreads == InitThreads /\ [][NextThreads]_vars

\* ------------------------------------------------------------ the lock
\* Every way through Initialize and _Initialize, the I/O errors of the calls
\* made under the lock, and Uninitialize.

\* BlockAllocator::Initialize(false) (lines 522-534): the groups are created
\* and nothing else is done
InitializeNotFull ==
    /\ phase = "new"
    /\ threads' = [threads EXCEPT ![Scanner] =
                        [pc |-> "done",
                         call |-> [op |-> "Initialize", full |-> FALSE],
                         ret |-> [status |-> B_OK, run |-> NoRun],
                         best |-> NoRun, holds |-> HoldCount(Scanner)]]
    /\ phase' = "created"
    /\ UNCHANGED <<bitmap, groups, used_blocks, readOnly, call, ret, fLock,
                 transactionsDone, ioErrors, fLockCount>>

\* BlockAllocator::Initialize(true) when spawn_kernel_thread fails (lines
\* 536-542): the lock is taken and _Initialize is run by the caller, who is
\* the thread called Scanner then; Initialize has not returned
InitializeSynchronous ==
    /\ phase = "new"
    /\ CanLock(Scanner)
    /\ fLock' = Scanner
    /\ fLockCount' = fLockCount + 1
    /\ threads' = [threads EXCEPT ![Scanner] =
                        [pc |-> "locked",
                         call |-> [op |-> "_Initialize", i |-> 0],
                         ret |-> NoRet, best |-> NoRun, holds |-> 0]]
    /\ phase' = "initializing"
    /\ UNCHANGED <<bitmap, groups, used_blocks, readOnly, call, ret,
                 transactionsDone, ioErrors>>

\* _Initialize returns without giving the lock back
InitializeNoMemoryLockKept ==
    /\ threads[Scanner].pc = "locked"
    /\ threads[Scanner].call.i = 0
    /\ threads' = [threads EXCEPT ![Scanner].pc = "done",
                                  ![Scanner].ret = [status |-> B_NO_MEMORY,
                                                    run |-> NoRun]]
    /\ SharedUnchanged

\* _Initialize cannot allocate its buffer (lines 627-629): it returns, and
\* the RecursiveLocker of line 620 is destroyed
InitializeNoMemory ==
    /\ threads[Scanner].pc = "locked"
    /\ threads[Scanner].call.i = 0
    /\ threads' = [threads EXCEPT ![Scanner].pc = "unlock",
                                  ![Scanner].ret = [status |-> B_NO_MEMORY,
                                                    run |-> NoRun]]
    /\ SharedUnchanged

\* the rest of _Initialize (lines 680-710) with the groups as the loop has
\* left them
InitializeRest(bm, grps, ro) ==
    LET freeBlocks == Sum([i \in GroupIds |-> grps[i].fFreeBits], GroupIds)
        reserved == CheckBlocks(bm, grps, 0, ReservedBlocks, TRUE).status
                        = B_OK
        heal == ~reserved /\ ~ro
    IN  [bitmap |-> IF heal
                       THEN [bm EXCEPT ![0] = GroupAllocateBits(@,
                                grps[0].fNumBits, 0, ReservedBlocks)]
                       ELSE bm,
         groups |-> IF heal
                       THEN [grps EXCEPT ![0] =
                                GroupAllocateInfo(@, 0, ReservedBlocks)]
                       ELSE grps,
         used_blocks |-> NumBlocks - freeBlocks,
         done |-> IF heal THEN 1 ELSE 0]

\* read_pos fails for group i (lines 637-639): the loop is left, the groups
\* from i on stay as operator new[] left them, and the rest of _Initialize
\* is run
InitializeReadError ==
    /\ threads[Scanner].pc = "locked"
    /\ threads[Scanner].call.i < NumGroups
    /\ \E garbage \in UninitializedValues :
        LET r == InitializeRest(bitmap, GroupsRead(garbage), readOnly)
        IN  /\ bitmap' = r.bitmap
            /\ groups' = IF r.done = 1 THEN r.groups ELSE groups
            /\ used_blocks' = r.used_blocks
            /\ transactionsDone' = transactionsDone + r.done
    /\ threads' = [threads EXCEPT ![Scanner].pc = "unlock",
                                  ![Scanner].ret = [status |-> B_OK,
                                                    run |-> NoRun]]
    /\ UNCHANGED <<readOnly, phase, call, ret, fLock, ioErrors, fLockCount>>

\* Initialize returns what the _Initialize it has run itself returned (line
\* 542)
InitializeReturn ==
    /\ phase = "initializing"
    /\ threads[Scanner].pc = "done"
    /\ phase' = IF threads[Scanner].ret.status = B_OK THEN "mounted"
                                                       ELSE "failed"
    /\ ret' = [status |-> threads[Scanner].ret.status, run |-> NoRun]
    /\ UNCHANGED <<bitmap, groups, used_blocks, readOnly, call, fLock,
                 threads, transactionsDone, ioErrors, fLockCount>>

\* the block cache refuses a bitmap block
SomeFailingSets == FailingSets \ {{}}

\* the end of AllocateBlocks (lines 880-915) when bitmap blocks are refused
ThreadCommitIO(t, failing) ==
    /\ threads[t].pc = "commit"
    /\ LET c == threads[t].call
           best == threads[t].best
           r == AllocateBlocksCommitIO(bitmap, used_blocks, c.maximum,
                    c.minimum,
                    [bestGroup |-> best.allocation_group,
                     bestStart |-> best.start, bestLength |-> best.length,
                     groups |-> groups], failing)
       IN  /\ bitmap' = r.bitmap
           /\ groups' = r.groups
           /\ used_blocks' = r.used_blocks
           /\ ioErrors' = IF r.status = B_IO_ERROR THEN ioErrors + 1
                                                   ELSE ioErrors
           /\ threads' = [threads EXCEPT ![t].pc = "unlock",
                             ![t].ret = [status |-> r.status, run |-> r.run]]
    /\ UNCHANGED <<readOnly, phase, call, ret, fLock, transactionsDone,
                 fLockCount>>

\* BlockAllocator::Free under the lock (lines 1002-1055) when bitmap blocks
\* are refused
ThreadFreeLockedIO(t, failing) ==
    /\ threads[t].pc = "locked"
    /\ threads[t].call.op = "Free"
    /\ LET c == threads[t].call
           r == FreeIOResult(bitmap, groups, used_blocks, c.group, c.start,
                    c.length, failing)
       IN  /\ bitmap' = r.bitmap
           /\ groups' = r.groups
           /\ used_blocks' = r.used_blocks
           /\ ioErrors' = IF r.status = B_IO_ERROR THEN ioErrors + 1
                                                   ELSE ioErrors
           /\ threads' = [threads EXCEPT ![t].pc = "unlock",
                             ![t].ret = [status |-> r.status, run |-> NoRun]]
    /\ UNCHANGED <<readOnly, phase, call, ret, fLock, transactionsDone,
                 fLockCount>>

\* BlockAllocator::Uninitialize (lines 714-720) called by thread t when the
\* volume is unmounted and no other thread is in the allocator: it returns
\* when recursive_lock_lock does, and the lock is never given back
Uninitialize(t) ==
    /\ phase = "mounted"
    /\ threads[t].pc = "idle"
    /\ \A u \in Workers \ {t} : threads[u].pc \in {"idle", "done"}
    /\ CanLock(t)
    /\ fLock' = t
    /\ fLockCount' = fLockCount + 1
    /\ phase' = "unmounting"
    /\ UNCHANGED <<bitmap, groups, used_blocks, readOnly, call, ret, threads,
                 transactionsDone, ioErrors>>

\* a thread of _Initialize
ScannerSteps ==
    \/ InitializeScanGroup
    \/ InitializeCheckReserved
    \/ InitializeNoMemory
    \/ InitializeReadError

\* the steps of worker t that wait for nothing
WorkerSteps(t) ==
    \/ ThreadSearch(t)
    \/ ThreadCommit(t)
    \/ \E failing \in SomeFailingSets : ThreadCommitIO(t, failing)
    \/ ThreadFreeLocked(t)
    \/ \E failing \in SomeFailingSets : ThreadFreeLockedIO(t, failing)
    \/ ThreadTrimLocked(t)
    \/ ThreadUnlock(t)

NextLock ==
    \/ InitializeNotFull
    \/ InitializeLaunch
    \/ InitializeSynchronous
    \/ ScannerSteps
    \/ ThreadUnlock(Scanner)
    \/ InitializeReturn
    \/ \E t \in Workers :
            \/ ThreadCalls(t)
            \/ ThreadLock(t)
            \/ WorkerSteps(t)
            \/ Uninitialize(t)

SpecLock == InitThreads /\ [][NextLock]_vars

\* worker t is in a locked section: one of WorkerSteps(t) can be taken,
\* whatever the state of the allocator
InSection(t) == threads[t].pc \in {"locked", "commit", "unlock"}

\* weak fairness of WorkerSteps(t), with ENABLED <<WorkerSteps(t)>>_vars
\* written out as InSection(t)
WorkerGoesOn(t) == []<>(~InSection(t)) \/ []<><<WorkerSteps(t)>>_vars

\* Fair scheduling of the callers: a thread that waits for a lock that stays
\* free gets it, and a thread that is in a call goes on. Nothing is assumed
\* of the thread of _Initialize, which waits for the disk, nor of when calls
\* are made.
SpecLockFair ==
    /\ SpecLock
    /\ \A t \in Workers : WF_vars(ThreadLock(t)) /\ WorkerGoesOn(t)

\* ------------------------------------------------------------ properties
\* What the properties are stated in: the bitmap read bit by bit, without the
\* allocator's own accessors.

\* bit "bit" of group g is 1 (the block is allocated)
BitSet(bm, g, bit) ==
    (bit % ChunkBits)
        \in bm[g][bit \div BitsPerBlock][(bit % BitsPerBlock) \div ChunkBits]

GroupBits(g) == 0 .. (GroupNumBits(g) - 1)

\* the number of 0 bits of group g
FreeCount(bm, g) == Cardinality({b \in GroupBits(g) : ~BitSet(bm, g, b)})

\* the blocks start .. start + length - 1 of group g are all free
RunFree(bm, g, start, length) ==
    \A b \in start .. (start + length - 1) :
        b \in GroupBits(g) /\ ~BitSet(bm, g, b)

\* the length of the longest run of free blocks of group g (0 if none)
LongestFreeRun(bm, g) ==
    LET lengths == {l \in 1 .. GroupNumBits(g) :
                        \E s \in GroupBits(g) : RunFree(bm, g, s, l)}
    IN  IF lengths = {} THEN 0
        ELSE CHOOSE l \in lengths : \A k \in lengths : k <= l

\* the longest run of free blocks of any group
LongestFreeRunAnywhere(bm) ==
    LET lengths == {LongestFreeRun(bm, g) : g \in GroupIds}
    IN  CHOOSE l \in lengths : \A k \in lengths : k <= l

Initialized == phase \in {"idle", "returned"}

\* the step is a call of AllocateBlocks / Free that has returned
AllocateBlocksStep == phase = "idle" /\ call'.op = "AllocateBlocks"
FreeStep == phase = "idle" /\ call'.op = "Free"
AllocateBlocksReturned == phase = "returned" /\ call.op = "AllocateBlocks"
FreeReturned == phase = "returned" /\ call.op = "Free"

\* C1: in every state reached after the format or the mount scan (its repair
\* of the reserved prefix included) and any sequence of successful
\* AllocateBlocks calls and Free calls on allocated runs, each group's
\* fFreeBits is the number of 0 bits of the group and lies in 0 .. fNumBits.
C1_FreeBitsExact ==
    Initialized =>
        \A g \in GroupIds :
            /\ groups[g].fFreeBits = FreeCount(bitmap, g)
            /\ 0 <= groups[g].fFreeBits
            /\ groups[g].fFreeBits <= groups[g].fNumBits

\* C2: every block of a run a successful AllocateBlocks returns was free
\* when the call began, whether the run was found by the bit scan or taken
\* from the largest-run hint.
C2_ReturnedRunWasFree ==
    [][(AllocateBlocksStep /\ ret'.status = B_OK) =>
            RunFree(bitmap, ret'.run.allocation_group, ret'.run.start,
                ret'.run.length)]_vars

IsPowerOfTwo(n) == \E k \in 0 .. n : 2 ^ k = n

\* C3: when minimum is a power of two and minimum <= maximum, the length of
\* the run a successful AllocateBlocks returns is a multiple of minimum, also
\* when maximum is not.
C3_LengthMultipleOfMinimum ==
    (/\ AllocateBlocksReturned
     /\ ret.status = B_OK
     /\ IsPowerOfTwo(call.minimum)
     /\ call.minimum <= call.maximum)
        => ret.run.length % call.minimum = 0

\* C4: a successful AllocateBlocks followed at once by a successful Free of
\* the run it returned leaves every bitmap bit and the free count of the run's group as
\* they were before the allocation.
C4_AllocateThenFreeRestores ==
    [][(AllocateBlocksStep /\ ret'.status = B_OK) =>
            LET run == ret'.run
                f == FreeResult(bitmap', groups', used_blocks',
                        run.allocation_group, run.start, run.length)
            IN  f.status = B_OK =>
                /\ f.bitmap = bitmap
                /\ f.groups[run.allocation_group].fFreeBits
                        = groups[run.allocation_group].fFreeBits]_vars

\* an AllocateBlocks has returned a run, and freeing that run is accepted
C4_Witness ==
    /\ AllocateBlocksReturned
    /\ ret.status = B_OK
    /\ FreeResult(bitmap, groups, used_blocks, ret.run.allocation_group,
            ret.run.start, ret.run.length).status = B_OK

\* the allocator's state a rejected call must leave alone
AllocatorUnchanged == UNCHANGED <<bitmap, groups, used_blocks>>

\* the run lies in an existing group, inside its bits, and is not empty
ValidRunArguments(c) ==
    /\ c.group \in GroupIds
    /\ c.length > 0
    /\ c.start + c.length <= GroupNumBits(c.group)

\* the run holds a block of the reserved prefix (bitmap and log)
TouchesReserved(c) ==
    \E b \in c.start .. (c.start + c.length - 1) :
        ToBlock(c.group, b) < ReservedBlocks

\* C5: Free of a run that is valid otherwise but holds a block of the
\* reserved prefix returns B_BAD_VALUE and changes no bitmap bit, no group's
\* free count or hints, and not the used-block counter.
C5_FreeReservedRejected ==
    [][(FreeStep /\ ValidRunArguments(call') /\ TouchesReserved(call')) =>
            (ret'.status = B_BAD_VALUE /\ AllocatorUnchanged)]_vars

\* a Free of a valid run reaching into the reserved prefix has returned
C5_Witness ==
    /\ FreeReturned
    /\ ValidRunArguments(call)
    /\ TouchesReserved(call)
    /\ ret.status = B_BAD_VALUE

\* C6: Free with a group outside 0 .. numGroups - 1, with start + length
\* beyond the group's bits, or with length 0 returns B_BAD_VALUE and changes
\* nothing.
C6_FreeInvalidRejected ==
    [][(FreeStep /\ ~ValidRunArguments(call')) =>
            (ret'.status = B_BAD_VALUE /\ AllocatorUnchanged)]_vars

\* Free has rejected a group out of range, a run past the group's end and an
\* empty run (one state each would do; this one is the run past the end)
C6_Witness ==
    /\ FreeReturned
    /\ call.group \in GroupIds
    /\ call.length > 0
    /\ call.start + call.length > GroupNumBits(call.group)
    /\ ret.status = B_BAD_VALUE

\* C7: if some group holds a run of at least minimum free blocks
\* (1 <= minimum <= maximum), AllocateBlocks succeeds whatever the group and
\* start hints are.
C7_AllocateSucceedsIfRunExists ==
    [][(/\ AllocateBlocksStep
        /\ 1 <= call'.minimum
        /\ call'.minimum <= call'.maximum
        /\ LongestFreeRunAnywhere(bitmap) >= call'.minimum)
            => ret'.status = B_OK]_vars

\* C8: if no group holds a run of at least minimum free blocks,
\* AllocateBlocks returns B_DEVICE_FULL and changes no bitmap bit, no group's
\* fFreeBits or fFirstFree, and not the used-block counter.
C8_DeviceFullChangesNothing ==
    [][(/\ AllocateBlocksStep
        /\ 1 <= call'.minimum
        /\ call'.minimum <= call'.maximum
        /\ LongestFreeRunAnywhere(bitmap) < call'.minimum)
            => /\ ret'.status = B_DEVICE_FULL
               /\ bitmap' = bitmap
               /\ used_blocks' = used_blocks
               /\ \A g \in GroupIds :
                    /\ groups'[g].fFreeBits = groups[g].fFreeBits
                    /\ groups'[g].fFirstFree = groups[g].fFirstFree]_vars

\* C9: if the longest free run of any group has length L with
\* minimum <= L < maximum and minimum <= 1, AllocateBlocks returns a run of
\* exactly L blocks.
C9_WholeBestRunReturned ==
    [][(/\ AllocateBlocksStep
        /\ call'.minimum = 1
        /\ call'.minimum <= LongestFreeRunAnywhere(bitmap)
        /\ LongestFreeRunAnywhere(bitmap) < call'.maximum)
            => /\ ret'.status = B_OK
               /\ ret'.run.length = LongestFreeRunAnywhere(bitmap)]_vars

\* C10: the run a successful AllocateBlocks returns names an existing group,
\* ends inside that group's bits, and has minimum <= length <= maximum.
C10_ReturnedRunInBounds ==
    (/\ AllocateBlocksReturned
     /\ ret.status = B_OK
     /\ 1 <= call.minimum
     /\ call.minimum <= call.maximum)
        => /\ ret.run.allocation_group \in GroupIds
           /\ ret.run.start >= 0
           /\ ret.run.start + ret.run.length
                <= groups[ret.run.allocation_group].fNumBits
           /\ call.minimum <= ret.run.length
           /\ ret.run.length <= call.maximum

\* an AllocateBlocks with minimum > 1 has returned a run that ends at the last
\* bit of its group
C10_Witness ==
    /\ AllocateBlocksReturned
    /\ ret.status = B_OK
    /\ call.minimum > 1
    /\ ret.run.start + ret.run.length
            = groups[ret.run.allocation_group].fNumBits

\* the greatest multiple of m in 0 .. b
GreatestMultiple(m, b) ==
    CHOOSE x \in 0 .. b :
        x % m = 0 /\ \A y \in 0 .. b : y % m = 0 => y <= x

\* the length of the best run the search of AllocateBlocks finds for a call
BestLengthFound(c) ==
    Search(bitmap, groups, c.group, c.start, c.maximum).bestLength

\* C11: when minimum > 1 and the best free run the search finds has length b
\* with minimum <= b <= maximum, AllocateBlocks succeeds and the length of
\* the run it returns is the greatest multiple of minimum not exceeding b.
C11_LengthRoundedDown ==
    [][(/\ AllocateBlocksStep
        /\ call'.minimum > 1
        /\ call'.minimum <= BestLengthFound(call')
        /\ BestLengthFound(call') <= call'.maximum)
            => /\ ret'.status = B_OK
               /\ ret'.run.length
                    = GreatestMultiple(call'.minimum, BestLengthFound(call'))]_vars

\* an AllocateBlocks with minimum 2 and maximum 3 has returned 2 blocks of a
\* free run of 3: the block after the returned run is still free
C11_Witness ==
    /\ AllocateBlocksReturned
    /\ ret.status = B_OK
    /\ call.minimum = 2
    /\ call.maximum = 3
    /\ ret.run.length = 2
    /\ ret.run.start + 2 \in GroupBits(ret.run.allocation_group)
    /\ ~BitSet(bitmap, ret.run.allocation_group, ret.run.start + 2)

\* the blocks of group g that belong to the reserved prefix
PrefixBits(g) == {b \in GroupBits(g) : ToBlock(g, b) < ReservedBlocks}

FormatReturned ==
    phase = "returned" /\ call.op = "InitializeAndClearBitmap"

\* C12: after a successful InitializeAndClearBitmap exactly the blocks of the
\* reserved prefix are marked allocated and every other block of every group
\* is free, each group's fFreeBits is its bit count minus its share of the
\* prefix, and the used-block counter is the length of the prefix.
C12_FormatReservesPrefixOnly ==
    (FormatReturned /\ ret.status = B_OK) =>
        /\ \A g \in GroupIds : \A b \in GroupBits(g) :
                BitSet(bitmap, g, b) <=> b \in PrefixBits(g)
        /\ \A g \in GroupIds :
                groups[g].fFreeBits
                    = GroupNumBits(g) - Cardinality(PrefixBits(g))
        /\ used_blocks = ReservedBlocks

\* the format has returned; the reserved prefix is not empty and its first
\* block is marked allocated
C12_Witness ==
    /\ FormatReturned
    /\ ret.status = B_OK
    /\ PrefixBits(0) # {}
    /\ BitSet(bitmap, 0, 0)

\* the allocator is in the state InitializeAndClearBitmap leaves: only the
\* reserved prefix is allocated and every group's hints are those of the format
FreshlyFormatted ==
    /\ bitmap = InitializeAndClearBitmapResult.bitmap
    /\ groups = InitializeAndClearBitmapResult.groups
    /\ used_blocks = InitializeAndClearBitmapResult.used_blocks

\* C13: on a freshly formatted volume whose reserved prefix of r blocks lies
\* in group 0, AllocateBlocks with group hint 0, start hint 0, minimum 1 and
\* maximum k, k at most the free blocks of group 0, returns the run
\* (group 0, start r, length k).
C13_FirstAllocationAfterPrefix ==
    [][(/\ AllocateBlocksStep
        /\ FreshlyFormatted
        /\ call'.group = 0
        /\ call'.start = 0
        /\ call'.minimum = 1
        /\ 1 <= call'.maximum
        /\ call'.maximum <= FreeCount(bitmap, 0))
            => /\ ret'.status = B_OK
               /\ ret'.run = [allocation_group |-> 0, start |-> ReservedBlocks,
                              length |-> call'.maximum]]_vars

\* AllocateBlocks(0, 0, 3, 1) has returned on a volume that holds nothing but
\* the reserved prefix and the three blocks after it
C13_Witness ==
    /\ AllocateBlocksReturned
    /\ ret.status = B_OK
    /\ call.group = 0 /\ call.start = 0
    /\ call.minimum = 1 /\ call.maximum = 3
    /\ \A g \in GroupIds : \A b \in GroupBits(g) :
            BitSet(bitmap, g, b) <=> ToBlock(g, b) < ReservedBlocks + 3
    /\ used_blocks = ReservedBlocks + 3

\* C14: after the format and after any sequence of AllocateBlocks and Free
\* calls, accepted or rejected, every block of the reserved prefix is marked
\* allocated, and no run AllocateBlocks returns holds a block of the prefix.
C14_PrefixStaysReserved ==
    Initialized =>
        /\ \A g \in GroupIds : \A b \in PrefixBits(g) : BitSet(bitmap, g, b)
        /\ (AllocateBlocksReturned /\ ret.status = B_OK) =>
                \A b \in ret.run.start .. (ret.run.start + ret.run.length - 1) :
                    ToBlock(ret.run.allocation_group, b) >= ReservedBlocks

\* on the formatted volume, with group 1 full and other blocks allocated by
\* earlier calls, AllocateBlocks has returned a run that starts right after
\* the prefix
C14_Witness ==
    /\ AllocateBlocksReturned
    /\ ret.status = B_OK
    /\ ToBlock(ret.run.allocation_group, ret.run.start) = ReservedBlocks
    /\ used_blocks > ReservedBlocks + ret.run.length
    /\ groups[1].fFreeBits = 0

TrimReturned == phase = "returned" /\ call.op = "Trim"

\* all the ranges of all the discard requests, in the order they were passed
RECURSIVE Flatten(_)
Flatten(requests) ==
    IF requests = <<>> THEN <<>>
    ELSE Head(requests) \o Flatten(Tail(requests))

\* volume block b is free in the bitmap
BlockIsFree(bm, b) == ~BitSet(bm, b \div BitsPerGroup, b % BitsPerGroup)

\* the byte range r = [offset, offset + size) holds a byte of block b
RangeTouches(r, b) ==
    r.offset < (b + 1) * BlockSize /\ b * BlockSize < r.offset + r.size

\* the byte range r holds every byte of block b
RangeCovers(r, b) ==
    r.offset <= b * BlockSize /\ (b + 1) * BlockSize <= r.offset + r.size

\* C15: when a Trim of the whole volume has succeeded, the byte ranges it
\* passed to the device cover exactly the blocks whose bitmap bit is 0: no
\* range touches an allocated block, and every free block lies in exactly
\* one range; with a device that discards all it is given, trimmedSize is the
\* number of free blocks times the block size, which on a freshly formatted
\* volume is the volume's bytes minus the bytes of the reserved prefix.
C15_TrimCoversFreeBlocks ==
    (TrimReturned /\ ret.status = B_OK) =>
        LET ranges == Flatten(ret.requests)
            free == {b \in 0 .. (NumBlocks - 1) : BlockIsFree(bitmap, b)}
        IN  /\ \A b \in 0 .. (NumBlocks - 1) :
                    LET touching == {k \in 1 .. Len(ranges) :
                                        RangeTouches(ranges[k], b)}
                    IN  IF b \in free
                            THEN /\ Cardinality(touching) = 1
                                 /\ \A k \in touching :
                                        RangeCovers(ranges[k], b)
                            ELSE touching = {}
            /\ \A k \in 1 .. Len(ranges) :
                    /\ ranges[k].size > 0
                    /\ ranges[k].offset + ranges[k].size
                            <= NumBlocks * BlockSize
            /\ ret.trimmedSize = Cardinality(free) * BlockSize
            /\ FreshlyFormatted =>
                    ret.trimmedSize
                        = NumBlocks * BlockSize - ReservedBlocks * BlockSize

\* a whole-volume Trim has succeeded with more free runs than one request
\* holds: it has issued more than one discard request
C15_Witness ==
    /\ TrimReturned
    /\ ret.status = B_OK
    /\ Len(ret.requests) > 1
    /\ Len(Flatten(ret.requests)) > kTrimRanges

\* thread t makes a call of op in this step
ThreadCallStep(t, op) ==
    threads[t].pc = "idle" /\ threads'[t].call.op = op

\* C16: Trim called with an offset other than 0 or with a size smaller than
\* the volume returns B_UNSUPPORTED without a discard request, without taking
\* the allocator's lock and without changing the allocator's state.
C16_TrimPartialUnsupported ==
    [][\A t \in Workers :
        (/\ ThreadCallStep(t, "Trim")
         /\ \/ threads'[t].call.offset # 0
            \/ threads'[t].call.size < NumBlocks * BlockSize)
            => /\ threads'[t].pc = "done"
               /\ threads'[t].ret.status = B_UNSUPPORTED
               /\ threads'[t].ret.requests = <<>>
               /\ fLock' = fLock
               /\ AllocatorUnchanged]_vars

\* a Trim of less than the volume has returned B_UNSUPPORTED while the
\* scanner holds the lock
C16_Witness ==
    \E t \in Workers :
        /\ threads[t].pc = "done"
        /\ threads[t].call.op = "Trim"
        /\ threads[t].call.size < NumBlocks * BlockSize
        /\ threads[t].ret.status = B_UNSUPPORTED
        /\ fLock = Scanner
        /\ threads[Scanner].pc = "locked"

\* thread t is in the part of its call that runs under the lock: the scan of
\* _Initialize, the search and commit of AllocateBlocks, Free, Trim
InLockedSection(t) ==
    IF t = Scanner THEN threads[t].pc \in {"locked", "unlock"}
    ELSE threads[t].pc \in {"locked", "commit", "unlock"}

\* the scan launched by Initialize has not finished
ScanRunning == threads[Scanner].pc \in {"locked", "unlock"}

\* worker t takes a step of a locked section: a search, a commit, a Free or
\* a Trim
LockedStep(t) ==
    threads[t].pc \in {"locked", "commit"} /\ threads'[t] # threads[t]

\* C17: the mount-time scan, the search and commit of AllocateBlocks, Free
\* and Trim exclude each other: no two threads are in such a section at the
\* same time; and while the scan launched by Initialize(true) runs, no
\* AllocateBlocks, Free or Trim takes a step of its section, and every change
\* of a bitmap bit, of a group or of the used-block counter is made by the
\* scan.
C17_LockExcludes ==
    /\ [](\A t \in Threads : \A u \in Threads \ {t} :
            ~(InLockedSection(t) /\ InLockedSection(u)))
    /\ [][ScanRunning =>
            /\ \A t \in Workers : ~LockedStep(t)
            /\ ~AllocatorUnchanged =>
                    threads'[Scanner] # threads[Scanner]]_vars

\* the scan is half done while one thread waits for the lock in AllocateBlocks
\* and another in Free
C17_Witness ==
    /\ threads[Scanner].pc = "locked"
    /\ threads[Scanner].call.i = 1
    /\ \E t \in Workers : \E u \in Workers \ {t} :
            /\ threads[t].pc = "lock"
            /\ threads[t].call.op = "AllocateBlocks"
            /\ threads[u].pc = "lock"
            /\ threads[u].call.op = "Free"

\* worker t reads fields of a group in this step, in Allocate,
\* AllocateBlocks, Free, CheckBlocks or IsValidBlockRun
ReadsGroups(t) ==
    \/ ThreadCallStep(t, "Allocate") /\ threads'[t].call.numBlocks > 0
    \/ ThreadCallStep(t, "CheckBlocks")
    \/ ThreadCallStep(t, "IsValidBlockRun")
    \/ /\ LockedStep(t)
       /\ threads[t].call.op \in {"Allocate", "AllocateBlocks", "Free"}

\* C18: no allocation observes a partially scanned group: when a scan has
\* been launched, every read of a group's fields made for Allocate,
\* AllocateForInode, AllocateBlocks, Free, CheckBlocks/CheckBlockRun and
\* IsValidBlockRun happens after the scan has completed.
C18_GroupsReadAfterScan ==
    [][\A t \in Workers : ReadsGroups(t) => ~ScanRunning]_vars

\* C19: the allocator never completes a transaction: in every operation,
\* the mount-time scan and its repair of the reserved prefix included, it
\* only enlists bitmap blocks, and Transaction::Done() is never called by
\* the allocator's code.
C19_NoTransactionDone == transactionsDone = 0

\* the number of blocks of the volume whose bitmap bit is 1
UsedCount(bm) ==
    Cardinality({b \in 0 .. (NumBlocks - 1) : ~BlockIsFree(bm, b)})

\* C20: after the format and after every successful AllocateBlocks or Free
\* the used-block counter is the number of blocks whose bitmap bit is 1, which
\* is the total number of blocks minus the sum of the groups' free counts; a
\* successful AllocateBlocks adds the returned length to the counter and a
\* successful Free subtracts the freed length.
C20_UsedBlocksExact ==
    /\ []((\/ FormatReturned
           \/ (AllocateBlocksReturned \/ FreeReturned) /\ ret.status = B_OK)
            => /\ used_blocks = UsedCount(bitmap)
               /\ used_blocks
                    = NumBlocks
                        - Sum([g \in GroupIds |-> groups[g].fFreeBits],
                              GroupIds))
    /\ [][((AllocateBlocksStep /\ ret'.status = B_OK)
                => used_blocks' = used_blocks + ret'.run.length)
           /\ ((FreeStep /\ ret'.status = B_OK)
                => used_blocks' = used_blocks - call'.length)]_vars

AllocateForInodeStep == phase = "idle" /\ call'.op = "AllocateForInode"
AllocateForInodeReturned == phase = "returned" /\ call.op = "AllocateForInode"

\* the groups that hold a free block
NonFullGroups(bm) == {g \in GroupIds : FreeCount(bm, g) > 0}

\* the first of the groups of S in the order first, first + 1, ..., wrapping
\* round after the last group
FirstInRoundRobin(S, first) ==
    CHOOSE g \in S :
        \A h \in S : (g - first) % NumGroups <= (h - first) % NumGroups

\* the group the search for a new inode starts in
FirstInodeGroup(c) ==
    IF S_DIRECTORY \in c.type /\ S_INDEX_DIR \notin c.type
            /\ S_ATTR_DIR \notin c.type
        THEN (c.parent + 8) % NumGroups
        ELSE c.parent

\* C21: AllocateForInode returns a run of exactly one block in the first
\* group that is not full, in round-robin order from the group
\* (parent group + 8) mod the number of groups for a plain directory and from
\* the parent's group for every other kind; it returns B_DEVICE_FULL only
\* when every group is full.
C21_InodeInFirstNonFullGroup ==
    [][AllocateForInodeStep =>
        IF NonFullGroups(bitmap) = {}
            THEN ret'.status = B_DEVICE_FULL
            ELSE /\ ret'.status = B_OK
                 /\ ret'.run.length = 1
                 /\ ret'.run.allocation_group
                        = FirstInRoundRobin(NonFullGroups(bitmap),
                                FirstInodeGroup(call'))]_vars

AllocateStep == phase = "idle" /\ call'.op = "Allocate"
AllocateReturned == phase = "returned" /\ call.op = "Allocate"

\* the inode has data, all of it in direct runs
HasDirectData(inode) ==
    /\ inode.size > 0
    /\ inode.max_indirect_range = 0
    /\ inode.max_double_indirect_range = 0

\* the last of the inode's direct runs that is in use
LastRunOf(inode) ==
    inode.direct[CHOOSE k \in 1 .. NUM_DIRECT_BLOCKS :
                    /\ inode.direct[k] # ZeroRun
                    /\ \A j \in (k + 1) .. NUM_DIRECT_BLOCKS :
                            inode.direct[j] = ZeroRun]

\* C22: Allocate for an owner that has direct-block data continues right
\* after the owner's last run: when the numBlocks blocks that follow the
\* last direct run in its group are all free, the returned run starts at
\* last.start + last.length in that group, wherever the group's largest free
\* run lies.
C22_ContinuesAfterLastRun ==
    [][(/\ AllocateStep
        /\ HasDirectData(call'.inode)
        /\ call'.numBlocks >= 1
        /\ RunFree(bitmap, LastRunOf(call'.inode).allocation_group,
                LastRunOf(call'.inode).start + LastRunOf(call'.inode).length,
                call'.numBlocks))
            => /\ ret'.status = B_OK
               /\ ret'.run.allocation_group
                    = LastRunOf(call'.inode).allocation_group
               /\ ret'.run.start
                    = LastRunOf(call'.inode).start
                        + LastRunOf(call'.inode).length]_vars

CheckBlocksStep == phase = "idle" /\ call'.op = "CheckBlocks"
CheckBlocksReturned == phase = "returned" /\ call.op = "CheckBlocks"

\* the blocks of start .. start + length - 1 whose bit is not what the
\* caller expects
Mismatches(bm, start, length, allocated) ==
    {b \in start .. (start + length - 1) : BlockIsFree(bm, b) = allocated}

\* the least number of a non-empty set of numbers
Least(S) == CHOOSE x \in S : \A y \in S : x <= y

\* C23: CheckBlocks(start, length, expected) changes nothing; a range with
\* start < 0 or start + length beyond the volume returns B_BAD_VALUE;
\* otherwise it returns B_OK if and only if the bit of every block of
\* start .. start + length - 1 is as expected, also when the range crosses
\* the end of a bitmap block or of a group, and else B_BAD_DATA with the
\* lowest block whose bit differs.
C23_CheckBlocksExact ==
    [][CheckBlocksStep =>
        /\ AllocatorUnchanged
        /\ IF call'.start < 0 \/ call'.start + call'.length > NumBlocks
               THEN ret'.status = B_BAD_VALUE
           ELSE IF Mismatches(bitmap, call'.start, call'.length,
                        call'.allocated) = {}
               THEN ret'.status = B_OK
               ELSE /\ ret'.status = "B_BAD_DATA"
                    /\ ret'.firstError
                        = Least(Mismatches(bitmap, call'.start, call'.length,
                                    call'.allocated))]_vars

\* CheckBlocks has walked from the last block of group 0 into group 1 and
\* has reported the first block of group 1
C23_Witness ==
    /\ CheckBlocksReturned
    /\ call.start = BitsPerGroup - 1
    /\ call.length = 2
    /\ ret.status = "B_BAD_DATA"
    /\ ret.firstError = BitsPerGroup

\* the first of the longest maximal runs of free blocks of group g, as
\* <<start, length>>; <<0, 0>> if the group has no free block
FirstLongestFreeRun(bm, g) ==
    LET longest == LongestFreeRun(bm, g)
    IN  IF longest = 0 THEN <<0, 0>>
        ELSE <<Least({s \in GroupBits(g) : RunFree(bm, g, s, longest)}),
               longest>>

\* C24: in every state reached by the format or the mount scan and any
\* sequence of AllocateBlocks and Free calls (frees of allocated runs only),
\* a group whose fLargestValid is set has fLargestStart and fLargestLength
\* at the first longest maximal run of free bits of the group.
C24_HintIsFirstLongestRun ==
    Initialized =>
        \A g \in GroupIds :
            groups[g].fLargestValid =>
                <<groups[g].fLargestStart, groups[g].fLargestLength>>
                    = FirstLongestFreeRun(bitmap, g)

GroupAllocateStep == phase = "idle" /\ call'.op = "GroupAllocate"
GroupAllocateReturned == phase = "returned" /\ call.op = "GroupAllocate"

\* the run start .. start + length - 1 has a block in the run the hint of
\* grp names
SharesHintedBlock(grp, start, length) ==
    \E b \in start .. (start + length - 1) :
        b \in grp.fLargestStart .. (grp.fLargestStart + grp.fLargestLength - 1)

RestOfHint(grp, start, length) ==
    IF start = grp.fLargestStart
        THEN <<start + length, grp.fLargestLength - length>>
        ELSE <<grp.fLargestStart, start - grp.fLargestStart>>

FirstFreeIsLowerBound(bm, grps, g) ==
    \A b \in GroupBits(g) : b < grps[g].fFirstFree => BitSet(bm, g, b)

\* the step is a call that has allocated the run ret'.run with
\* AllocationGroup::Allocate (AllocateBlocks, directly or for an inode)
AllocatedRunStep ==
    /\ phase = "idle"
    /\ call'.op \in {"AllocateBlocks", "AllocateForInode"}
    /\ ret'.status = B_OK

InitializeStep == phase = "new" /\ call'.op = "Initialize"
InitializeReturned == phase = "returned" /\ call.op = "Initialize"

\* the lowest free bit of group g, -1 if it has none
LowestFreeBit(bm, g) ==
    LET free == {b \in GroupBits(g) : ~BitSet(bm, g, b)}
    IN  IF free = {} THEN -1 ELSE Least(free)

\* C27: the mount-time scan leaves a group with fFreeBits the number of 0
\* bits among its fNumBits bits, fFirstFree its lowest free bit (-1 if it
\* has none) and, if it has a free bit, a valid hint at the first longest
\* free run, also when that run ends at the group's last bit.  (Group 0 is
\* looked at when the scan is not followed by the repair of the prefix.)
C27_ScanExact ==
    [][InitializeStep =>
        \A g \in GroupIds :
            (g # 0 \/ bitmap' = bitmap) =>
                /\ groups'[g].fNumBits = GroupNumBits(g)
                /\ groups'[g].fFreeBits = FreeCount(bitmap, g)
                /\ groups'[g].fFirstFree = LowestFreeBit(bitmap, g)
                /\ FreeCount(bitmap, g) > 0 =>
                    /\ groups'[g].fLargestValid
                    /\ <<groups'[g].fLargestStart, groups'[g].fLargestLength>>
                            = FirstLongestFreeRun(bitmap, g)]_vars

\* a scanned group whose first longest free run ends at its last bit and is
\* not its first free run
C27_Witness ==
    /\ InitializeReturned
    /\ readOnly
    /\ groups[0].fLargestValid
    /\ groups[0].fLargestStart + groups[0].fLargestLength = groups[0].fNumBits
    /\ groups[0].fFirstFree < groups[0].fLargestStart
    /\ groups[0].fFirstFree >= ReservedBlocks
    /\ groups[0].fFreeBits > groups[0].fLargestLength

\* every block of the reserved prefix is marked allocated
PrefixAllocated(bm) ==
    \A b \in 0 .. (ReservedBlocks - 1) : ~BlockIsFree(bm, b)

\* C28: a mount of a writable volume whose reserved prefix is not fully
\* allocated repairs it: afterwards every block of the prefix is allocated,
\* fFreeBits of group 0 is the number of 0 bits of the repaired group and
\* its hint, if valid, is the first longest free run of the repaired group.
C28_RepairConsistent ==
    [][(InitializeStep /\ ~readOnly /\ ~PrefixAllocated(bitmap)) =>
            /\ PrefixAllocated(bitmap')
            /\ groups'[0].fFreeBits = FreeCount(bitmap', 0)
            /\ groups'[0].fLargestValid =>
                    <<groups'[0].fLargestStart, groups'[0].fLargestLength>>
                        = FirstLongestFreeRun(bitmap', 0)]_vars

\* C29: a mount of a read-only volume whose reserved prefix is not fully
\* allocated is fatal: Initialize does not report success, and the bitmap is
\* left as it was.
C29_ReadOnlyUnreservedFatal ==
    [][(InitializeStep /\ readOnly /\ ~PrefixAllocated(bitmap)) =>
            /\ ret'.status # B_OK
            /\ bitmap' = bitmap]_vars

\* C29 as amended: a mount of a read-only volume whose reserved prefix is not
\* fully allocated only logs the finding: Initialize reports success, and
\* the bitmap is left as it was, no transaction made.
C29_ReadOnlyUnreservedLogged ==
    [][(InitializeStep /\ readOnly /\ ~PrefixAllocated(bitmap)) =>
            /\ ret'.status = B_OK
            /\ bitmap' = bitmap
            /\ transactionsDone' = transactionsDone]_vars

\* a read-only volume mounted with a block of its reserved prefix free
C29_Witness ==
    /\ InitializeReturned
    /\ readOnly
    /\ ret.status = B_OK
    /\ ~PrefixAllocated(bitmap)

\* C30: when the mount-time initialization has completed, its repair of the
\* reserved prefix included, used_blocks is the number of blocks of the
\* volume minus the number of 0 bits of the bitmap, whatever the super block
\* held before, and the call reports success.
C30_MountReconcilesUsedBlocks ==
    [][InitializeStep =>
            /\ used_blocks' = UsedCount(bitmap')
            /\ ret'.status = B_OK]_vars

\* group gi has maximum free blocks in a row that begin at offset or behind it
HasRunFrom(bm, gi, offset, maximum) ==
    \E s \in GroupBits(gi) : s >= offset /\ RunFree(bm, gi, s, maximum)

\* the k-th group visited from the group hint and the offset that applies
\* to it: the start hint in the hinted group, 0 in the others
VisitedGroup(c, k) == (c.group + k) % NumGroups
VisitedOffset(c, k) == IF k = 0 THEN c.start ELSE 0

\* the places in the round-robin order whose group has a run of at least
\* maximum free blocks at or behind its offset
SufficientVisits(bm, c) ==
    {k \in 0 .. (NumGroups - 1) :
        HasRunFrom(bm, VisitedGroup(c, k), VisitedOffset(c, k), c.maximum)}

\* C31: AllocateBlocks stops at the first group, in round-robin order from
\* the group hint, that has a run of at least maximum free blocks at or
\* behind the applicable offset: the returned run lies in that group, and
\* when it is the hinted group the run has exactly maximum blocks.
C31_StopsAtFirstSufficientGroup ==
    [][(/\ AllocateBlocksStep
        /\ call'.maximum >= 1
        /\ SufficientVisits(bitmap, call') # {}) =>
            LET k == Least(SufficientVisits(bitmap, call'))
            IN  /\ ret'.status = B_OK
                /\ ret'.run.allocation_group = VisitedGroup(call', k)
                /\ k = 0 => ret'.run.length = call'.maximum]_vars

AllocateBlocksIOStep ==
    phase = "idle" /\ call'.op = "AllocateBlocks" /\ "failing" \in DOMAIN call'
FreeIOStep ==
    phase = "idle" /\ call'.op = "Free" /\ "failing" \in DOMAIN call'
FreeIOReturned ==
    phase = "returned" /\ call.op = "Free" /\ "failing" \in DOMAIN call

\* the bitmap blocks of a group that hold a bit of the run
BlocksOfRun(start, length) ==
    {b \div BitsPerBlock : b \in start .. (start + length - 1)}

\* the bits of the run that lie in the bitmap blocks before the first one
\* of its blocks that the block cache refuses
BitsBeforeRefusal(start, length, failing) ==
    {b \in start .. (start + length - 1) :
        b \div BitsPerBlock < Least(failing \cap BlocksOfRun(start, length))}

\* the bits of group g are those of bm except that the bits of "flipped"
\* have the value "set"; the other groups are as in bm
BitmapWith(bm2, bm, g, flipped, set) ==
    /\ \A h \in GroupIds \ {g} : bm2[h] = bm[h]
    /\ \A b \in GroupBits(g) :
            BitSet(bm2, g, b) = IF b \in flipped THEN set ELSE BitSet(bm, g, b)

\* C32: when a bitmap block cannot be obtained writable in the commit of
\* AllocateBlocks or in Free, the call returns B_IO_ERROR, leaves the used
\* blocks count alone, invalidates no cache range and returns no run; the
\* bits of the run in the bitmap blocks before the refused one stay flipped,
\* and fFreeBits and fFirstFree of the group keep the values of a completed
\* call.
C32_IOErrorLeavesPartialChange ==
    [][/\ FreeIOStep =>
            LET g == call'.group
                s == call'.start
                l == call'.length
            IN  /\ (/\ ret'.status # B_BAD_VALUE
                    /\ call'.failing \cap BlocksOfRun(s, l) # {})
                        => ret'.status = B_IO_ERROR
                /\ ret'.status = B_IO_ERROR =>
                    /\ call'.failing \cap BlocksOfRun(s, l) # {}
                    /\ used_blocks' = used_blocks
                    /\ ret'.discards = <<>>
                    /\ ret'.run = NoRun
                    /\ BitmapWith(bitmap', bitmap, g,
                            BitsBeforeRefusal(s, l, call'.failing), FALSE)
                    /\ groups'[g].fFreeBits = groups[g].fFreeBits + l
                    /\ groups'[g].fFirstFree
                        = IF groups[g].fFirstFree > s THEN s
                          ELSE groups[g].fFirstFree
       /\ AllocateBlocksIOStep =>
            /\ ret'.status = B_OK =>
                    call'.failing
                        \cap BlocksOfRun(ret'.run.start, ret'.run.length) = {}
            /\ ret'.status = B_IO_ERROR =>
                /\ used_blocks' = used_blocks
                /\ ret'.discards = <<>>
                /\ ret'.run = NoRun
                /\ \E g \in GroupIds, s \in 0 .. (BitsPerGroup - 1),
                      l \in 1 .. call'.maximum :
                        /\ call'.failing \cap BlocksOfRun(s, l) # {}
                        /\ BitmapWith(bitmap', bitmap, g,
                                BitsBeforeRefusal(s, l, call'.failing), TRUE)
                        /\ groups'[g].fFreeBits = groups[g].fFreeBits - l
                        /\ groups'[g].fFirstFree
                            = IF groups[g].fFirstFree = s THEN s + l
                              ELSE groups[g].fFirstFree]_vars

\* a Free of a run of two bitmap blocks has failed at the second: the bit in
\* the first block is cleared, the bit in the second is still set
C32_Witness ==
    /\ FreeIOReturned
    /\ ret.status = B_IO_ERROR
    /\ call.group = 0 /\ call.start = BitsPerBlock - 1 /\ call.length = 2
    /\ call.failing = {1}
    /\ ~BitSet(bitmap, 0, BitsPerBlock - 1)
    /\ BitSet(bitmap, 0, BitsPerBlock)

AllocateBlocksIOReturned ==
    /\ phase = "returned"
    /\ call.op = "AllocateBlocks"
    /\ "failing" \in DOMAIN call

\* C33: a successful AllocateBlocks invalidates the block cache exactly once,
\* for exactly the blocks of the returned run, when the bits of the run are
\* marked and the used blocks count is updated; a failed call invalidates
\* nothing.
C33_OneDiscardOfReturnedRun ==
    [][AllocateBlocksIOStep =>
            IF ret'.status = B_OK
                THEN /\ Len(ret'.discards) = 1
                     /\ ret'.discards[1].block
                            = ret'.run.allocation_group * BitsPerGroup
                                + ret'.run.start
                     /\ ret'.discards[1].length = ret'.run.length
                     /\ ret'.discards[1].marked
                     /\ ret'.discards[1].used_blocks
                            = used_blocks + ret'.run.length
                     /\ used_blocks' = used_blocks + ret'.run.length
                     /\ \A b \in ret'.run.start
                                .. (ret'.run.start + ret'.run.length - 1) :
                            BitSet(bitmap', ret'.run.allocation_group, b)
                ELSE ret'.discards = <<>>]_vars

\* a run of the second group has been returned and its range invalidated
C33_Witness ==
    /\ AllocateBlocksIOReturned
    /\ ret.status = B_OK
    /\ ret.run.allocation_group = 1
    /\ ret.discards = <<[block |-> BitsPerGroup, length |-> 1,
                        used_blocks |-> used_blocks, marked |-> TRUE]>>

\* the thread of _Initialize is between the RecursiveLocker of line 620 and
\* its return
ScanHasLock == threads[Scanner].pc \in {"locked", "unlock"}

\* _Initialize has returned
ScanEnded ==
    threads[Scanner].call.op = "_Initialize" /\ threads[Scanner].pc = "done"

\* _Initialize returns in this step
ScanEnds == ScanHasLock /\ threads'[Scanner].pc = "done"

\* Initialize(true) returns in this step after it has run _Initialize itself
InitializeSynchronousReturns ==
    phase = "initializing" /\ phase' \in {"mounted", "failed"}

\* C34: Initialize(true) hands the lock to the scan. From the first moment
\* of the scan to its return the scan holds the lock once and no other thread
\* holds it; the return of the scan, after a full scan, a failed allocation
\* of its buffer or a read error, gives the lock back, and the scan never
\* holds it again; if the thread could not be spawned, the lock is free when
\* Initialize returns. Initialize(false) does not touch the lock.
C34_LockHandedToScan ==
    /\ [](ScanHasLock => fLock = Scanner /\ fLockCount = 1)
    /\ [](ScanEnded => HoldCount(Scanner) = 0)
    /\ [](phase = "created" => fLock = "none" /\ fLockCount = 0)
    /\ [][/\ ScanEnds =>
                /\ HoldCount(Scanner) = 1
                /\ fLock' = "none" /\ fLockCount' = 0
                /\ threads'[Scanner].ret.status \in {B_OK, B_NO_MEMORY}
          /\ InitializeSynchronousReturns =>
                /\ ScanEnded
                /\ fLock' = "none" /\ fLockCount' = 0
                /\ ret'.status = threads[Scanner].ret.status
          /\ phase = "new" /\ phase' = "created" =>
                UNCHANGED <<fLock, fLockCount>>]_vars

\* Initialize has run the scan itself, the scan could not allocate its
\* buffer, and the lock is free
C34_Witness ==
    /\ phase = "failed"
    /\ ScanEnded
    /\ threads[Scanner].ret.status = B_NO_MEMORY
    /\ fLock = "none"

\* the calls that take the lock
LockingOps == {"AllocateBlocks", "Allocate", "Free", "Trim"}

\* thread t is in a call that it made with the lock held
InReentrantCall(t) ==
    /\ threads[t].call.op \in LockingOps
    /\ threads[t].pc \in {"lock", "locked", "commit", "unlock"}
    /\ threads[t].holds > 0

\* thread t returns from a call in this step
ThreadReturns(t) ==
    /\ threads[t].pc # "done"
    /\ threads'[t].pc = "done"
    /\ threads'[t].call.op \in LockingOps

\* C35: the lock is re-entrant and balanced. A thread that holds the lock
\* when it calls AllocateBlocks, Free or Trim is never made to wait in the
\* call: it keeps the lock, and where it locks again the lock lets it in.
\* When a call returns, with B_OK, B_BAD_VALUE, B_DEVICE_FULL, B_IO_ERROR or
\* B_UNSUPPORTED, the thread holds the lock as often as when it called.
C35_ReentrantBalanced ==
    /\ [](\A t \in Workers :
            InReentrantCall(t) =>
                /\ fLock = t
                /\ threads[t].pc = "lock" => CanLock(t))
    /\ [](\A t \in Workers :
            threads[t].pc = "done" /\ threads[t].call.op \in LockingOps =>
                HoldCount(t) = threads[t].holds)
    /\ [][\A t \in Workers :
            ThreadReturns(t) =>
                /\ HoldCount(t)' = threads'[t].holds
                /\ threads'[t].ret.status \in
                        {B_OK, B_BAD_VALUE, B_DEVICE_FULL, B_IO_ERROR,
                         B_UNSUPPORTED}]_vars

\* a thread that held the lock has called Free, the block cache has refused
\* the bitmap block, and the thread holds the lock as before
C35_Witness ==
    \E t \in Workers :
        /\ threads[t].pc = "done"
        /\ threads[t].call.op = "Free"
        /\ threads[t].ret.status = B_IO_ERROR
        /\ threads[t].holds = 1
        /\ HoldCount(t) = 1

\* thread t waits at the RecursiveLocker of AllocateBlocks, Free or Trim
Blocked(t) == threads[t].pc = "lock" /\ threads[t].call.op \in LockingOps

\* thread t has returned from its call
Completed(t) == threads[t].pc = "done"

\* C36: with the callers scheduled fairly, in a run in which the scan of
\* _Initialize ends every call of AllocateBlocks, Free or Trim that waits for
\* the lock gets it and returns. As long as the scan has not ended no waiting
\* call takes a step, none is inside its locked section, and Uninitialize
\* does not return.
C36_BlockedUntilScanEnds ==
    /\ (<>ScanEnded) => \A t \in Workers : Blocked(t) ~> Completed(t)
    /\ [](ScanHasLock =>
            \A t \in Workers : threads[t].pc \notin {"locked", "commit", "unlock"})
    /\ [][ScanHasLock =>
            /\ \A t \in Workers : Blocked(t) => threads'[t] = threads[t]
            /\ phase' = "unmounting" => phase = "unmounting"]_vars
    /\ [][phase # "unmounting" /\ phase' = "unmounting" =>
            ScanEnded /\ fLock = "none"]_vars

\* a call waits for the lock while the scan, at its last step, holds it
C36_Witness ==
    /\ threads[Scanner].pc = "unlock"
    /\ fLock = Scanner
    /\ \E t \in Workers : Blocked(t)

\* the byte range r is a maximal run of free blocks of the bitmap: it is made
\* of whole blocks, all free, and the blocks next to it, if any, are used
MaximalFreeRun(bm, r) ==
    /\ r.offset % BlockSize = 0
    /\ r.size % BlockSize = 0
    /\ r.size > 0
    /\ LET first == r.offset \div BlockSize
           last == (r.offset + r.size) \div BlockSize - 1
       IN  /\ last < NumBlocks
           /\ \A b \in first .. last : BlockIsFree(bm, b)
           /\ first > 0 => ~BlockIsFree(bm, first - 1)
           /\ last < NumBlocks - 1 => ~BlockIsFree(bm, last + 1)

\* the range r holds blocks of two bitmap blocks of one group, or of two
\* groups
CrossesBitmapBlock(r) ==
    \E b \in 0 .. (NumBlocks - 2) :
        /\ RangeCovers(r, b) /\ RangeCovers(r, b + 1)
        /\ b \div BitsPerGroup = (b + 1) \div BitsPerGroup
        /\ b \div BitsPerBlock # (b + 1) \div BitsPerBlock

CrossesGroup(r) ==
    \E b \in 0 .. (NumBlocks - 2) :
        /\ RangeCovers(r, b) /\ RangeCovers(r, b + 1)
        /\ b \div BitsPerGroup # (b + 1) \div BitsPerGroup

\* C37: the ranges that one call of Trim passes to the device, taken in the
\* order in which they are passed, ascend, and each ends before the next
\* begins with at least one block between them; each is a maximal run of
\* free blocks, so that a run that goes on in the next bitmap block or in the
\* next group is one range.
C37_TrimRangesMaximalAscending ==
    (TrimReturned /\ ret.status \in {B_OK, B_ERROR}) =>
        LET ranges == Flatten(ret.requests)
        IN  /\ \A k \in 1 .. Len(ranges) : MaximalFreeRun(bitmap, ranges[k])
            /\ \A k \in 1 .. (Len(ranges) - 1) :
                    ranges[k].offset + ranges[k].size < ranges[k + 1].offset

\* Trim has passed a run that goes from one bitmap block into the next and,
\* after it, a run that goes from one group into the next
C37_Witness ==
    /\ TrimReturned
    /\ ret.status = B_OK
    /\ LET ranges == Flatten(ret.requests)
       IN  \E j, k \in 1 .. Len(ranges) :
                /\ j < k
                /\ CrossesBitmapBlock(ranges[j])
                /\ CrossesGroup(ranges[k])

\* a call of AllocationBlock::Allocate or AllocationBlock::Free has ended
BlockCallEnded(op) == phase \in {"returned", "panicked"} /\ call.op = op

\* the bits of the bitmap block that the call was to change
BlockRange == call.start .. (call.start + call.numBlocks - 1)

\* bit i of a bitmap block given as its chunks
ChunkBitSet(chunks, i) == (i % ChunkBits) \in chunks[i \div ChunkBits]

\* the bitmap block the call has worked on, as it is now
BlockNow == bitmap[call.group][call.block]

\* the call has stopped the kernel
Panicked == phase = "panicked" /\ ret.status = "panic"

\* the claim as it was made: with KDEBUG, AllocationBlock::Allocate on a
\* range with a bit that is set already panics, and AllocationBlock::Free on
\* a range with a bit that is clear already panics
C38_BothDirectionsAbort ==
    /\ BlockCallEnded("AllocationBlock::Allocate") =>
            ((\E i \in BlockRange : ChunkBitSet(call.before, i)) => Panicked)
    /\ BlockCallEnded("AllocationBlock::Free") =>
            ((\E i \in BlockRange : ~ChunkBitSet(call.before, i)) => Panicked)

\* C38: with KDEBUG, AllocationBlock::Allocate panics if and only if a bit
\* of its range is set already, and then no bit outside the range has
\* changed and no bit has been cleared; otherwise it sets exactly the bits
\* of the range. AllocationBlock::Free has no such check: it never panics,
\* and it leaves the bits of its range clear and the others as they were,
\* also when bits of the range were clear already.
C38_OnlyAllocateAborts ==
    /\ BlockCallEnded("AllocationBlock::Allocate") =>
        /\ Panicked <=> \E i \in BlockRange : ChunkBitSet(call.before, i)
        /\ \A i \in 0 .. (BitsPerBlock - 1) :
            ChunkBitSet(BlockNow, i) <=>
                \/ ChunkBitSet(call.before, i)
                \/ i \in BlockRange /\ ~Panicked
                \/ i \in BlockRange /\ ChunkBitSet(BlockNow, i)
    /\ BlockCallEnded("AllocationBlock::Free") =>
        /\ ~Panicked
        /\ ret.status = B_OK
        /\ \A i \in 0 .. (BitsPerBlock - 1) :
            ChunkBitSet(BlockNow, i) <=>
                ChunkBitSet(call.before, i) /\ i \notin BlockRange

\* AllocationBlock::Allocate has panicked on a range of two words whose
\* second word had a bit set
C38_Witness ==
    /\ BlockCallEnded("AllocationBlock::Allocate")
    /\ Panicked
    /\ call.numBlocks > ChunkBits
    /\ ~ChunkBitSet(call.before, call.start)
    /\ ChunkBitSet(BlockNow, call.start)

\* the bits of the run start, length
BitsOfRun(start, length) == start .. (start + length - 1)

\* C39: a successful AllocateBlocks finds every bit of the run it returns
\* clear and leaves it set, a successful Free leaves every bit of its run
\* clear, and no other bit of any group differs after the call from what it
\* was before, whether or not the run lies in one word or one bitmap block.
C39_ExactlyTheRunChanges ==
    [][/\ (AllocateBlocksStep /\ ret'.status = B_OK) =>
            /\ RunFree(bitmap, ret'.run.allocation_group, ret'.run.start,
                    ret'.run.length)
            /\ BitmapWith(bitmap', bitmap, ret'.run.allocation_group,
                    BitsOfRun(ret'.run.start, ret'.run.length), TRUE)
       /\ (FreeStep /\ ret'.status = B_OK) =>
            BitmapWith(bitmap', bitmap, call'.group,
                BitsOfRun(call'.start, call'.length), FALSE)]_vars

\* C40: every discard request of a Trim carries at least one and at most
\* kTrimRanges ranges, each of a size other than 0; every request but the
\* last carries kTrimRanges of them; and a Trim of a volume without a free
\* block sends no request.
C40_RequestsHoldPendingRanges ==
    (TrimReturned /\ ret.status \in {B_OK, B_ERROR}) =>
        /\ \A k \in 1 .. Len(ret.requests) :
                /\ Len(ret.requests[k]) >= 1
                /\ Len(ret.requests[k]) <= kTrimRanges
                /\ k < Len(ret.requests) =>
                        Len(ret.requests[k]) = kTrimRanges
                /\ \A j \in 1 .. Len(ret.requests[k]) :
                        ret.requests[k][j].size > 0
        /\ (\A b \in 0 .. (NumBlocks - 1) : ~BlockIsFree(bitmap, b)) =>
                ret.requests = <<>>

====
